---- MODULE Spec2Model ----
(***************************************************************************)
(* ArchiveFlow: the upload-and-verification pipeline.                      *)
(*                                                                         *)
(* The App component (src/unnamed/part_000) is modelled as a state machine *)
(* over its React state, the resources its handlers and its polling effect *)
(* own (the two interval timers, the fetches and the XMLHttpRequest in     *)
(* flight, the pending metadata-generation calls), and the pure helpers of *)
(* src/services/archiveService.ts.  Text is a sequence of one-character    *)
(* strings, so that includes(), split() and template literals are computed *)
(* rather than assumed.                                                    *)
(***************************************************************************)
EXTENDS Integers, Sequences, FiniteSets, TLC

VARIABLES
    \* React state of App (part_000 lines 8-36)
    keys, isSettingsOpen, step, file, metadata, isGenerating,
    uploadProgress, successUrl, errorMsg, isVerifying, elapsedTime,
    \* the component and its polling effect (part_000 lines 69-124)
    mounted, effectPending, pollInterval, timerInterval, sincePoll,
    sessionIdentifier, checks,
    \* collaborators in flight
    xhr, generating, clock,
    \* observation: the last event handled, and the step states the
    \* orchestrator visited during the upload attempt in progress
    last, visited,
    \* the input and the result of a helper function applied on its own
    probe

vars == <<keys, isSettingsOpen, step, file, metadata,
          isGenerating, uploadProgress, successUrl, errorMsg, isVerifying,
          elapsedTime, mounted, effectPending, pollInterval, timerInterval,
          sincePoll, sessionIdentifier, checks, xhr, generating, clock,
          last, visited, probe>>

----------------------------------------------------------------------------
\* Bounds of the model.

\* Seconds of waiting the model follows in one polling session.
MaxElapsed == 22
\* Status checks that may be outstanding at the same time.
MaxInflight == 2
\* Progress events the transport reports during one upload.
MaxProgressEvents == 2
\* Code units of a plain text given to sanitizeHeaderValue.
MaxPlainLen == 3
\* Layers of percent-encoding that come onto a plain text.
MaxLayers == 6
\* Characters of the text a title of the model repeats.
MaxTitleUnit == 2
\* Characters of a file name.
MaxNameLen == 3
\* Milliseconds that pass while requests are built.
MaxClockTicks == 2
\* Characters typed into a key input.
MaxKeyLen == 2

\* Program constants.
PollSeconds == 5
SkipThreshold == 20
TitleLimit == 50
\* Decoding passes of sanitizeHeaderValue (loopCount < 5).
MaxDecodePasses == 5

\* null, for the state that holds a text or null (successUrl, errorMsg)
NullText == <<"<null>">>
\* null, for the state that holds an object or null (file, keys, the request)
NoFile == [none |-> TRUE]
NoKeys == [none |-> TRUE]
NoXhr == [none |-> TRUE]
NoProbe == [none |-> TRUE]

----------------------------------------------------------------------------
\* Text helpers (JavaScript string operations on sequences of characters).

\* String.prototype.includes
Includes(s, sub) ==
    \E i \in 0..(Len(s) - Len(sub)) : SubSeq(s, i + 1, i + Len(sub)) = sub

DigitChars == <<"0","1","2","3","4","5","6","7","8","9">>

\* Number to decimal text, as a template literal formats it.
RECURSIVE Digits(_)
Digits(n) ==
    IF n < 10 THEN <<DigitChars[n + 1]>>
    ELSE Digits(n \div 10) \o <<DigitChars[(n % 10) + 1]>>

UpperCase == <<"A","B","C","D","E","F","G","H","I","J","K","L","M",
               "N","O","P","Q","R","S","T","U","V","W","X","Y","Z">>
LowerCase == <<"a","b","c","d","e","f","g","h","i","j","k","l","m",
               "n","o","p","q","r","s","t","u","v","w","x","y","z">>

ToLowerChar(c) ==
    IF \E i \in 1..26 : UpperCase[i] = c
    THEN LowerCase[CHOOSE i \in 1..26 : UpperCase[i] = c]
    ELSE c

\* toLowerCase
ToLowerCase(s) == [i \in 1..Len(s) |-> ToLowerChar(s[i])]

\* A variant that takes accented letters for letters.
IsLowerAlnumOrAccented(c) ==
    \/ \E i \in 1..26 : LowerCase[i] = c
    \/ \E i \in 1..10 : DigitChars[i] = c
    \/ c = "<E9>"

\* [a-z0-9]
IsLowerAlnum(c) ==
    \/ \E i \in 1..26 : LowerCase[i] = c
    \/ \E i \in 1..10 : DigitChars[i] = c

\* replace(/[^a-z0-9]+/g, '-'): every maximal run of other characters
\* becomes one hyphen.
RECURSIVE HyphenateRuns(_)
HyphenateRuns(s) ==
    IF s = <<>> THEN <<>>
    ELSE IF IsLowerAlnum(Head(s)) THEN <<Head(s)>> \o HyphenateRuns(Tail(s))
    ELSE IF Len(s) > 1 /\ ~IsLowerAlnum(s[2]) THEN HyphenateRuns(Tail(s))
    ELSE <<"-">> \o HyphenateRuns(Tail(s))

RECURSIVE TrimLeadingHyphens(_)
TrimLeadingHyphens(s) ==
    IF s # <<>> /\ Head(s) = "-" THEN TrimLeadingHyphens(Tail(s)) ELSE s

RECURSIVE TrimTrailingHyphens(_)
TrimTrailingHyphens(s) ==
    IF s # <<>> /\ s[Len(s)] = "-"
    THEN TrimTrailingHyphens(SubSeq(s, 1, Len(s) - 1))
    ELSE s

\* replace(/^-+|-+$/g, '')
TrimHyphens(s) == TrimTrailingHyphens(TrimLeadingHyphens(s))

\* substring(0, n)
Substring0(s, n) == SubSeq(s, 1, IF Len(s) < n THEN Len(s) ELSE n)

IdentifierPrefix ==
    <<"n","o","t","e","b","o","o","k","l","m","-","a","r","c","h","i","v","e","-">>

\* A variant that stamps the identifier with the second, not the millisecond.
generateIdentifierBySecond(title, timestamp) ==
    LET cleanTitle == TrimHyphens(HyphenateRuns(ToLowerCase(title)))
    IN  IdentifierPrefix \o Substring0(cleanTitle, TitleLimit)
            \o <<"-">> \o Digits(timestamp \div 1000)

\* generateIdentifier, with the value Date.now() returned.
generateIdentifier(title, timestamp) ==
    LET cleanTitle == TrimHyphens(HyphenateRuns(ToLowerCase(title)))
    IN  IdentifierPrefix \o Substring0(cleanTitle, TitleLimit)
            \o <<"-">> \o Digits(timestamp)

DetailsBase ==
    <<"h","t","t","p","s",":","/","/","a","r","c","h","i","v","e",".","o","r","g",
      "/","d","e","t","a","i","l","s","/">>

\* A variant that resolves with the address of the item's directory.
DetailsUrlAsDirectory(identifier) == DetailsBase \o identifier \o <<"/">>

\* The URL the upload promise resolves with.
DetailsUrl(identifier) == DetailsBase \o identifier

\* successUrl.split('/').pop()
RECURSIVE LastSegment(_)
LastSegment(s) ==
    IF \E i \in 1..Len(s) : s[i] = "/"
    THEN LastSegment(Tail(s))
    ELSE s

UploadFailedText ==
    <<"U","p","l","o","a","d"," ","f","a","i","l","e","d"," ","w","i","t","h"," ",
      "s","t","a","t","u","s"," ">>

NetworkErrorText ==
    <<"N","e","t","w","o","r","k"," ","e","r","r","o","r"," ","d","u","r","i","n","g",
      " ","u","p","l","o","a","d">>

UnknownErrorText ==
    <<"U","n","k","n","o","w","n"," ","e","r","r","o","r"," ","o","c","c","u","r","r",
      "e","d">>

\* The message of the Error the load listener rejects with.
UploadFailedMessage(status, responseText) ==
    UploadFailedText \o Digits(status) \o <<":"," ">> \o responseText

\* A variant without the upper limit.
StatusIsSuccessFrom200(status) == status >= 200

\* xhr.status >= 200 && xhr.status < 300
StatusIsSuccess(status) == status >= 200 /\ status < 300

Marker403 == <<"4","0","3">>
MarkerInvalidKey ==
    <<"I","n","v","a","l","i","d","A","c","c","e","s","s","K","e","y","I","d">>
MarkerSignature ==
    <<"S","i","g","n","a","t","u","r","e","D","o","e","s","N","o","t","M","a","t","c","h">>

\* isAuthError
isAuthError(msg) ==
    IF msg = NullText \/ msg = <<>> THEN FALSE
    ELSE \/ Includes(msg, Marker403)
         \/ Includes(msg, MarkerInvalidKey)
         \/ Includes(msg, MarkerSignature)

----------------------------------------------------------------------------
\* Values the inputs are drawn from.

Files == {[name |-> <<"a",".","m","p","3">>], [name |-> <<"b"," ","c",".","w","a","v">>]}

\* What the user types into the title input.
Titles == {<<>>}

CreatorDefault == <<"N","o","t","e","b","o","o","k","L","M">>

\* The initial value of the metadata state.
InitialMetadata ==
    [title |-> <<>>, description |-> <<>>, tags |-> <<>>, creator |-> CreatorDefault]

\* What generateMetadataFromContext resolves with for a file name (an
\* opaque collaborator: a title of its own for each file).
generateMetadataFromContext(name) ==
    [title |-> IF name = <<"a",".","m","p","3">> THEN <<"E","p">>
               ELSE <<"M","y"," ","1">>,
     description |-> <<"a","i">>,
     tags |-> << <<"a","i">> >>,
     creator |-> CreatorDefault]

SavedKeys == [accessKey |-> <<"A","K">>, secretKey |-> <<"S","K">>]

\* The values Date.now() returns, in the order it returns them: every upload
\* attempt reads the clock once, at a later millisecond than the attempt
\* before, so the model follows as many attempts as there are values.
Timestamps == {1, 2}

\* The clock readings still to come.
LaterTimestamps == {t \in Timestamps : t > clock}

\* Percentages the transport reports (loaded / total * 100).
ProgressValues == {10, 100}

\* Responses of the PUT: the final status and the response body.
UploadResponses ==
    { [status |-> 200, responseText |-> <<>>],
      [status |-> 299, responseText |-> <<>>],
      [status |-> 403, responseText |-> <<"<">> \o MarkerInvalidKey \o <<">">>] }

OtherIdentifier == <<"o","t","h","e","r">>

\* Responses of the metadata endpoint to a check for identifier id.
\* rejected: the fetch itself failed; ok: response.ok; the rest is the JSON.
CheckResponse(rejected, ok, hasMetadata, metaId, hasFiles, formats) ==
    [rejected |-> rejected, ok |-> ok, hasMetadata |-> hasMetadata,
     metadataIdentifier |-> metaId, hasFiles |-> hasFiles, formats |-> formats]

CheckResponses(id) ==
    { CheckResponse(TRUE, FALSE, FALSE, <<>>, FALSE, <<>>),
      CheckResponse(FALSE, FALSE, TRUE, id, TRUE, <<"MP3", "PNG">>),
      CheckResponse(FALSE, TRUE, FALSE, <<>>, FALSE, <<>>),
      CheckResponse(FALSE, TRUE, TRUE, id, TRUE, <<"MP3">>),
      CheckResponse(FALSE, TRUE, TRUE, OtherIdentifier, TRUE, <<"MP3", "PNG">>),
      CheckResponse(FALSE, TRUE, TRUE, id, TRUE, <<"MP3", "PNG">>) }

\* data.files && data.files.some(f => f.format === 'PNG')
hasWaveform(resp) ==
    resp.hasFiles /\ \E i \in 1..Len(resp.formats) : resp.formats[i] = "PNG"

\* A variant that does not wait for the waveform.
CheckCompletesWithoutWaveform(resp, identifier) ==
    /\ ~resp.rejected
    /\ resp.ok
    /\ resp.hasMetadata
    /\ resp.metadataIdentifier = identifier

\* The condition under which checkStatus ends verification.
CheckCompletes(resp, identifier) ==
    /\ ~resp.rejected
    /\ resp.ok
    /\ resp.hasMetadata
    /\ resp.metadataIdentifier = identifier
    /\ hasWaveform(resp)

----------------------------------------------------------------------------
\* The orchestrator's step state, as the views render it.

StepState ==
    [step |-> step,
     progress |-> IF step = "UPLOADING" THEN uploadProgress ELSE 0,
     url |-> IF step = "SUCCESS" THEN successUrl ELSE NullText,
     message |-> IF step = "ERROR" THEN errorMsg ELSE NullText]

Uploading(p) ==
    [step |-> "UPLOADING", progress |-> p, url |-> NullText, message |-> NullText]

Succeeded(url) ==
    [step |-> "SUCCESS", progress |-> 0, url |-> url, message |-> NullText]

Failed(message) ==
    [step |-> "ERROR", progress |-> 0, url |-> NullText, message |-> message]

\* JavaScript truthiness of a text-or-null value.
Truthy(text) == text # NullText /\ text # <<>>

\* Which views are rendered (the JSX conditions of part_000).
UploadViewShown == step = "UPLOAD"
ReviewViewShown == step = "REVIEW" /\ file # NoFile
ReviewFormShown == ReviewViewShown /\ ~isGenerating
SuccessViewShown == step = "SUCCESS" /\ Truthy(successUrl)
\* A variant that offers the skip button from the threshold on.
SkipButtonShownFromThreshold == SuccessViewShown /\ isVerifying /\ elapsedTime >= SkipThreshold
SkipButtonShown == SuccessViewShown /\ isVerifying /\ elapsedTime > SkipThreshold
ErrorViewShown == step = "ERROR"
SettingsModalOpen == isSettingsOpen \/ (keys = NoKeys /\ step = "UPLOAD")

\* An event handler runs on the mounted component, after React has flushed
\* the effects of the previous render.
Ready == mounted /\ ~effectPending

\* The record of the visited step states: kept while an upload attempt is in
\* progress and for the state that concludes it.
Observe ==
    visited' = IF xhr = NoXhr THEN <<>>
               ELSE IF StepState' # StepState THEN Append(visited, StepState')
               ELSE visited

\* The state of the component after its first render.
InitialRender ==
    /\ isSettingsOpen = FALSE
    /\ step = "UPLOAD"
    /\ file = NoFile
    /\ metadata = InitialMetadata
    /\ isGenerating = FALSE
    /\ uploadProgress = 0
    /\ successUrl = NullText
    /\ errorMsg = NullText
    /\ isVerifying = FALSE
    /\ elapsedTime = 0
    /\ mounted = TRUE
    /\ effectPending = FALSE
    /\ pollInterval = FALSE
    /\ timerInterval = FALSE
    /\ sincePoll = 0
    /\ sessionIdentifier = <<>>
    /\ checks = <<>>
    /\ xhr = NoXhr
    /\ generating = {}
    /\ clock = 0
    /\ last = [event |-> "mount"]
    /\ visited = <<>>

\* The keys state starts from what localStorage holds.
Init ==
    /\ keys \in {NoKeys, SavedKeys}
    /\ InitialRender
    /\ probe = NoProbe

----------------------------------------------------------------------------
\* Groups of variables an action leaves alone.

draftVars == <<file, metadata, isGenerating>>
outcomeVars == <<uploadProgress, successUrl, errorMsg>>
verifyVars == <<isVerifying, elapsedTime>>
pollVars == <<pollInterval, timerInterval, sincePoll, sessionIdentifier, checks>>

----------------------------------------------------------------------------
\* The metadata draft: file selection, generation, editing.

\* A variant that waits for the generated metadata before it moves on.
handleFileSelectBlocking(selectedFile) ==
    /\ Ready
    /\ UNCHANGED probe
    /\ UploadViewShown
    /\ selectedFile.name \notin generating
    /\ file' = selectedFile
    /\ step' = "REVIEW"
    /\ metadata' = generateMetadataFromContext(selectedFile.name)
    /\ effectPending' = TRUE
    /\ last' = [event |-> "draft"]
    /\ UNCHANGED <<keys, isSettingsOpen, isGenerating, outcomeVars, verifyVars,
                   mounted, pollVars, xhr, generating, clock>>
    /\ Observe

\* handleFileSelect, up to its await.  A call for the same file name is
\* not started while one is outstanding (a bound of the model).
handleFileSelect(selectedFile) ==
    /\ Ready
    /\ UNCHANGED probe
    /\ UploadViewShown
    /\ selectedFile.name \notin generating
    /\ file' = selectedFile
    /\ step' = "REVIEW"
    /\ isGenerating' = TRUE
    /\ generating' = generating \cup {selectedFile.name}
    /\ effectPending' = TRUE
    /\ last' = [event |-> "draft"]
    /\ UNCHANGED <<keys, isSettingsOpen, metadata, outcomeVars, verifyVars,
                   mounted, pollVars, xhr, clock>>
    /\ Observe

\* A variant that never takes the spinner of the review view away.
GenerationResolvesStaysBusy(name) ==
    /\ Ready
    /\ UNCHANGED probe
    /\ name \in generating
    /\ metadata' = generateMetadataFromContext(name)
    /\ generating' = generating \ {name}
    /\ last' = [event |-> "draft"]
    /\ UNCHANGED <<keys, isSettingsOpen, step, file, isGenerating, outcomeVars,
                   verifyVars, mounted, effectPending, pollVars, xhr, clock>>
    /\ Observe

\* handleFileSelect, after its await: the call for file name resolves.
GenerationResolves(name) ==
    /\ Ready
    /\ UNCHANGED probe
    /\ name \in generating
    /\ metadata' = generateMetadataFromContext(name)
    /\ isGenerating' = FALSE
    /\ generating' = generating \ {name}
    /\ last' = [event |-> "draft"]
    /\ UNCHANGED <<keys, isSettingsOpen, step, file, outcomeVars, verifyVars,
                   mounted, effectPending, pollVars, xhr, clock>>
    /\ Observe

\* The Back button of the review view.
Back ==
    /\ Ready
    /\ UNCHANGED probe
    /\ ReviewViewShown
    /\ step' = "UPLOAD"
    /\ effectPending' = TRUE
    /\ last' = [event |-> "draft"]
    /\ UNCHANGED <<keys, isSettingsOpen, draftVars, outcomeVars,
                   verifyVars, mounted, pollVars, xhr, generating, clock>>
    /\ Observe

\* onChange of the title input: setMetadata({...metadata, title}).
EditMetadata(edited) ==
    /\ Ready
    /\ UNCHANGED probe
    /\ ReviewFormShown
    /\ edited # metadata
    /\ metadata' = edited
    /\ last' = [event |-> "draft"]
    /\ UNCHANGED <<keys, isSettingsOpen, step, file, isGenerating,
                   outcomeVars, verifyVars, mounted, effectPending, pollVars, xhr,
                   generating, clock>>
    /\ Observe

\* The values one edit of the title input can give the metadata.
MetadataEdits == {[metadata EXCEPT !.title = t] : t \in Titles}

----------------------------------------------------------------------------
\* Credentials.

\* The settings button of the header, and "Update API Keys" of the error view.
OpenSettings ==
    /\ Ready
    /\ UNCHANGED probe
    /\ ~isSettingsOpen
    /\ isSettingsOpen' = TRUE
    /\ UNCHANGED <<keys, step, draftVars, outcomeVars, verifyVars,
                   mounted, effectPending, pollVars, xhr, generating, clock, last,
                   visited>>

\* onClose of the modal (its Cancel button).
CloseSettings ==
    /\ Ready
    /\ UNCHANGED probe
    /\ isSettingsOpen
    /\ isSettingsOpen' = FALSE
    /\ UNCHANGED <<keys, step, draftVars, outcomeVars, verifyVars,
                   mounted, effectPending, pollVars, xhr, generating, clock, last,
                   visited>>

\* handleKeysSave, followed by the onClose the modal's handleSave calls.
\* (The verified flag it also stores only drives the badge of the header.)
handleKeysSave(newKeys) ==
    /\ Ready
    /\ UNCHANGED probe
    /\ SettingsModalOpen
    /\ keys' = newKeys
    /\ isSettingsOpen' = FALSE
    /\ UNCHANGED <<step, draftVars, outcomeVars, verifyVars, mounted,
                   effectPending, pollVars, xhr, generating, clock, last,
                   visited>>

----------------------------------------------------------------------------
\* The upload attempt.

\* A variant that forgets the credentials.
UploadRefusedWithoutFile == file = NoFile

\* The guard of handleUpload: !file || !keys
UploadRefused == file = NoFile \/ keys = NoKeys

\* The request uploadToInternetArchive builds and sends; reported is the
\* progress the transport has passed to onProgress so far.
UploadRequest(timestamp) ==
    [file |-> file, metadata |-> metadata, keys |-> keys,
     identifier |-> generateIdentifier(metadata.title, timestamp),
     reported |-> <<>>]

\* handleUpload up to its await, on the Publish button.
handleUpload ==
    /\ Ready
    /\ UNCHANGED probe
    /\ ReviewFormShown
    /\ IF UploadRefused
       THEN /\ isSettingsOpen' = (IF keys = NoKeys THEN TRUE ELSE isSettingsOpen)
            /\ last' = [event |-> "publishRefused"]
            /\ visited' = <<>>
            /\ UNCHANGED <<step, uploadProgress, xhr, clock, effectPending>>
       ELSE \E timestamp \in {t \in LaterTimestamps :
                                  \A u \in LaterTimestamps : t <= u} :
            /\ step' = "UPLOADING"
            /\ uploadProgress' = 0
            /\ xhr' = UploadRequest(timestamp)
            /\ clock' = timestamp
            /\ effectPending' = TRUE
            /\ last' = [event |-> "publish"]
            /\ visited' = <<Uploading(0)>>
            /\ UNCHANGED isSettingsOpen
    /\ UNCHANGED <<keys, draftVars, successUrl, errorMsg, verifyVars,
                   mounted, pollVars, generating>>

\* A variant whose transport reads the draft again at each progress event.
UploadProgressRereadsDraft(percent) ==
    /\ Ready
    /\ UNCHANGED probe
    /\ xhr # NoXhr
    /\ Len(xhr.reported) < MaxProgressEvents
    /\ \A i \in 1..Len(xhr.reported) : xhr.reported[i] <= percent
    /\ uploadProgress' = percent
    /\ xhr' = [xhr EXCEPT !.reported = Append(@, percent),
                          !.metadata = metadata]
    /\ last' = [event |-> "progress"]
    /\ UNCHANGED <<keys, isSettingsOpen, step, draftVars, successUrl,
                   errorMsg, verifyVars, mounted, effectPending, pollVars,
                   generating, clock>>
    /\ visited' = Append(visited, StepState')

\* A progress event with lengthComputable: onProgress(percent).
UploadProgress(percent) ==
    /\ Ready
    /\ UNCHANGED probe
    /\ xhr # NoXhr
    /\ Len(xhr.reported) < MaxProgressEvents
    /\ \A i \in 1..Len(xhr.reported) : xhr.reported[i] <= percent
    /\ uploadProgress' = percent
    /\ xhr' = [xhr EXCEPT !.reported = Append(@, percent)]
    /\ last' = [event |-> "progress"]
    /\ UNCHANGED <<keys, isSettingsOpen, step, draftVars, successUrl,
                   errorMsg, verifyVars, mounted, effectPending, pollVars,
                   generating, clock>>
    /\ visited' = Append(visited, StepState')

\* A variant that builds the details URL from the title.
UploadOutcomeFromTitle(status, responseText) ==
    IF StatusIsSuccess(status)
    THEN [resolved |-> TRUE, url |-> DetailsUrl(xhr.metadata.title),
          message |-> <<>>]
    ELSE [resolved |-> FALSE, url |-> <<>>,
          message |-> UploadFailedMessage(status, responseText)]

\* What the promise of uploadToInternetArchive settles with on the load event.
UploadOutcome(status, responseText) ==
    IF StatusIsSuccess(status)
    THEN [resolved |-> TRUE, url |-> DetailsUrl(xhr.identifier), message |-> <<>>]
    ELSE [resolved |-> FALSE, url |-> <<>>,
          message |-> UploadFailedMessage(status, responseText)]

\* The error event: reject(new Error('Network error during upload')).
NetworkFailure == [resolved |-> FALSE, url |-> <<>>, message |-> NetworkErrorText]

\* A variant in which the request stays open after its outcome (a transport
\* that reports through callbacks, which a later event calls again).
UploadSettlesKeepsRequest(outcome, response) ==
    /\ Ready
    /\ UNCHANGED probe
    /\ xhr # NoXhr
    /\ generating = {}
    /\ outcome.resolved => Len(checks) < MaxInflight
    /\ IF outcome.resolved
       THEN /\ successUrl' = outcome.url
            /\ step' = "SUCCESS"
            /\ UNCHANGED errorMsg
       ELSE /\ errorMsg' = (IF outcome.message # <<>> THEN outcome.message
                            ELSE UnknownErrorText)
            /\ step' = "ERROR"
            /\ UNCHANGED successUrl
    /\ effectPending' = TRUE
    /\ last' = [event |-> "settled", request |-> xhr, response |-> response]
    /\ UNCHANGED <<keys, isSettingsOpen, draftVars, uploadProgress,
                   verifyVars, mounted, pollVars, generating, clock, xhr>>
    /\ visited' = Append(visited, StepState')

\* err.message || 'Unknown error occurred'
CaughtMessage(outcome) ==
    IF outcome.message # <<>> THEN outcome.message ELSE UnknownErrorText

\* handleUpload after its await: the try branch or the catch branch.
\* response is what the transport received (status 0: no response).
UploadSettles(outcome, response) ==
    /\ Ready
    /\ UNCHANGED probe
    /\ xhr # NoXhr
    \* bounds of the model: the generation calls have resolved by the time
    \* the request settles, and the bound on outstanding checks leaves room
    \* for the immediate check
    /\ generating = {}
    /\ outcome.resolved => Len(checks) < MaxInflight
    /\ IF outcome.resolved
       THEN /\ successUrl' = outcome.url
            /\ step' = "SUCCESS"
            /\ UNCHANGED errorMsg
       ELSE /\ errorMsg' = CaughtMessage(outcome)
            /\ step' = "ERROR"
            /\ UNCHANGED successUrl
    /\ xhr' = NoXhr
    /\ effectPending' = TRUE
    /\ last' = [event |-> "settled", request |-> xhr, response |-> response]
    /\ UNCHANGED <<keys, isSettingsOpen, draftVars, uploadProgress,
                   verifyVars, mounted, pollVars, generating, clock>>
    /\ visited' = Append(visited, StepState')

\* The load event of the request, with the response's status and body.
UploadLoad(status, responseText) ==
    UploadSettles(UploadOutcome(status, responseText),
                  [received |-> TRUE, status |-> status,
                   responseText |-> responseText])

\* The error event of the request.
UploadError ==
    UploadSettles(NetworkFailure,
                  [received |-> FALSE, status |-> 0, responseText |-> <<>>])

\* A variant that starts the draft over.
TryAgainFromScratch ==
    /\ Ready
    /\ UNCHANGED probe
    /\ ErrorViewShown
    /\ step' = "REVIEW"
    /\ metadata' = InitialMetadata
    /\ effectPending' = TRUE
    /\ last' = [event |-> "tryAgain", file |-> file, metadata |-> metadata]
    /\ UNCHANGED <<keys, isSettingsOpen, file, isGenerating, outcomeVars,
                   verifyVars, mounted, pollVars, xhr, generating, clock>>
    /\ Observe

\* The Try Again button of the error view.
TryAgain ==
    /\ Ready
    /\ UNCHANGED probe
    /\ ErrorViewShown
    /\ step' = "REVIEW"
    /\ effectPending' = TRUE
    /\ last' = [event |-> "tryAgain", file |-> file, metadata |-> metadata]
    /\ UNCHANGED <<keys, isSettingsOpen, draftVars, outcomeVars,
                   verifyVars, mounted, pollVars, xhr, generating, clock>>
    /\ Observe

----------------------------------------------------------------------------
\* The live verification poll: the effect on [step, successUrl].

\* A variant that forgets the ticker.
EffectCleanupKeepsTicker == [pollInterval |-> FALSE, timerInterval |-> timerInterval]

\* The cleanup of the effect: both interval handles are cleared.  (A
\* cleared poll interval has no phase and no closure: sincePoll and
\* sessionIdentifier go back to their initial values with it.)
EffectCleanup == [pollInterval |-> FALSE, timerInterval |-> FALSE]

\* The phase of the poll interval, which only a set interval has.
Phase(interval, seconds) == IF interval THEN seconds ELSE 0

\* The identifier in the closure of the poll interval.
Closure(interval, identifier) == IF interval THEN identifier ELSE <<>>

\* A fetch issued by checkStatus; live says that the interval handles its
\* closure holds belong to the effect instance that has not been cleaned up.
NewCheck(identifier) == [identifier |-> identifier, live |-> TRUE]

\* After a cleanup the handles held by the outstanding checks are dead.
Orphaned(cs) == [i \in 1..Len(cs) |-> [cs[i] EXCEPT !.live = FALSE]]

\* A variant of the effect without the immediate call of checkStatus.
RunEffectWithoutFirstCheck ==
    /\ mounted
    /\ effectPending
    /\ UNCHANGED probe
    /\ effectPending' = FALSE
    /\ IF step = "SUCCESS" /\ Truthy(successUrl)
       THEN /\ isVerifying' = TRUE
            /\ elapsedTime' = 0
            /\ timerInterval' = TRUE
            /\ pollInterval' = TRUE
            /\ sincePoll' = 0
            /\ sessionIdentifier' = LastSegment(successUrl)
            /\ checks' = [i \in 1..Len(checks) |-> [checks[i] EXCEPT !.live = FALSE]]
       ELSE /\ timerInterval' = FALSE
            /\ pollInterval' = FALSE
            /\ sincePoll' = 0
            /\ sessionIdentifier' = <<>>
            /\ checks' = [i \in 1..Len(checks) |-> [checks[i] EXCEPT !.live = FALSE]]
            /\ UNCHANGED verifyVars
    /\ UNCHANGED <<keys, isSettingsOpen, step, draftVars, outcomeVars,
                   mounted, xhr, generating, clock, last, visited>>

\* React runs the cleanup of the previous effect instance and then the
\* effect body, because step or successUrl changed in the last render.
RunEffect ==
    /\ mounted
    /\ effectPending
    /\ UNCHANGED probe
    /\ effectPending' = FALSE
    /\ IF step = "SUCCESS" /\ Truthy(successUrl)
       THEN LET identifier == LastSegment(successUrl)
            IN  /\ isVerifying' = TRUE
                /\ elapsedTime' = 0
                /\ IF identifier # <<>>
                   THEN /\ timerInterval' = TRUE
                        /\ pollInterval' = TRUE
                        /\ sincePoll' = 0
                        /\ sessionIdentifier' = identifier
                        /\ checks' = Append(Orphaned(checks), NewCheck(identifier))
                   ELSE /\ timerInterval' = EffectCleanup.timerInterval
                        /\ pollInterval' = EffectCleanup.pollInterval
                        /\ sincePoll' = Phase(pollInterval', sincePoll)
                        /\ sessionIdentifier' = Closure(pollInterval', sessionIdentifier)
                        /\ checks' = Orphaned(checks)
       ELSE /\ timerInterval' = EffectCleanup.timerInterval
            /\ pollInterval' = EffectCleanup.pollInterval
            /\ sincePoll' = Phase(pollInterval', sincePoll)
            /\ sessionIdentifier' = Closure(pollInterval', sessionIdentifier)
            /\ checks' = Orphaned(checks)
            /\ UNCHANGED verifyVars
    /\ UNCHANGED <<keys, isSettingsOpen, step, draftVars, outcomeVars,
                   mounted, xhr, generating, clock, last, visited>>

\* A variant with a built-in timeout: the ticker gives up the verification
\* once the elapsed time passes the threshold of the skip button.
TickWithTimeout ==
    /\ Ready
    /\ UNCHANGED probe
    /\ timerInterval \/ pollInterval
    /\ ~(pollInterval /\ sincePoll = PollSeconds)
    /\ elapsedTime < MaxElapsed
    /\ elapsedTime' = (IF timerInterval THEN elapsedTime + 1 ELSE elapsedTime)
    /\ sincePoll' = (IF pollInterval THEN sincePoll + 1 ELSE sincePoll)
    /\ isVerifying' = (isVerifying /\ elapsedTime' <= SkipThreshold)
    /\ last' = [event |-> "tick"]
    /\ UNCHANGED <<keys, isSettingsOpen, step, draftVars, outcomeVars,
                   mounted, effectPending, pollInterval,
                   timerInterval, sessionIdentifier, checks, xhr, generating,
                   clock>>
    /\ Observe

\* One second passes: the callback of timerInterval runs if that interval is
\* set, and the poll interval comes one second closer to firing.
Tick ==
    /\ Ready
    /\ UNCHANGED probe
    /\ timerInterval \/ pollInterval
    /\ ~(pollInterval /\ sincePoll = PollSeconds)
    /\ elapsedTime < MaxElapsed
    /\ elapsedTime' = (IF timerInterval THEN elapsedTime + 1 ELSE elapsedTime)
    /\ sincePoll' = (IF pollInterval THEN sincePoll + 1 ELSE sincePoll)
    /\ last' = [event |-> "tick"]
    /\ UNCHANGED <<keys, isSettingsOpen, step, draftVars, outcomeVars,
                   isVerifying, mounted, effectPending, pollInterval,
                   timerInterval, sessionIdentifier, checks, xhr, generating,
                   clock>>
    /\ Observe

\* A variant that skips the firing while a check of the session is outstanding.
PollFiresWhenIdle ==
    /\ Ready
    /\ UNCHANGED probe
    /\ pollInterval
    /\ sincePoll = PollSeconds
    /\ Len(checks) < MaxInflight
    /\ \A i \in 1..Len(checks) : ~checks[i].live
    /\ checks' = Append(checks, NewCheck(sessionIdentifier))
    /\ sincePoll' = 0
    /\ last' = [event |-> "poll"]
    /\ UNCHANGED <<keys, isSettingsOpen, step, draftVars, outcomeVars,
                   verifyVars, mounted, effectPending, pollInterval,
                   timerInterval, sessionIdentifier, xhr, generating, clock>>
    /\ Observe

\* pollInterval fires: checkStatus issues its fetch.
PollFires ==
    /\ Ready
    /\ UNCHANGED probe
    /\ pollInterval
    /\ sincePoll = PollSeconds
    /\ Len(checks) < MaxInflight
    /\ checks' = Append(checks, NewCheck(sessionIdentifier))
    /\ sincePoll' = 0
    /\ last' = [event |-> "poll"]
    /\ UNCHANGED <<keys, isSettingsOpen, step, draftVars, outcomeVars,
                   verifyVars, mounted, effectPending, pollInterval,
                   timerInterval, sessionIdentifier, xhr, generating, clock>>
    /\ Observe

\* A variant whose catch gives up polling.
AfterCheckStopsOnFailure(check, resp) ==
    IF CheckCompletes(resp, check.identifier)
    THEN [isVerifying |-> FALSE,
          pollInterval |-> IF check.live THEN FALSE ELSE pollInterval,
          timerInterval |-> IF check.live THEN FALSE ELSE timerInterval]
    ELSE [isVerifying |-> isVerifying,
          pollInterval |-> IF resp.rejected /\ check.live THEN FALSE
                           ELSE pollInterval,
          timerInterval |-> timerInterval]

\* What checkStatus does to the verification state when its fetch settles
\* with resp: on completion setIsVerifying(false) and both handles of its
\* closure are cleared; otherwise nothing (the catch only logs).
AfterCheck(check, resp) ==
    IF CheckCompletes(resp, check.identifier)
    THEN [isVerifying |-> FALSE,
          pollInterval |-> IF check.live THEN FALSE ELSE pollInterval,
          timerInterval |-> IF check.live THEN FALSE ELSE timerInterval]
    ELSE [isVerifying |-> isVerifying, pollInterval |-> pollInterval,
          timerInterval |-> timerInterval]

\* The responses the i-th outstanding fetch may settle with.
SettleResponses(i) ==
    CheckResponses(IF i <= Len(checks) THEN checks[i].identifier ELSE <<>>)

\* A variant in which a completing check clears the timers of its closure
\* and leaves the pending flag as it is.
CheckSettlesKeepsPending(i, resp) ==
    /\ Ready
    /\ UNCHANGED probe
    /\ i \in 1..Len(checks)
    /\ resp \in SettleResponses(i)
    /\ isVerifying' = isVerifying
    /\ pollInterval' = AfterCheck(checks[i], resp).pollInterval
    /\ timerInterval' = AfterCheck(checks[i], resp).timerInterval
    /\ sincePoll' = Phase(pollInterval', sincePoll)
    /\ sessionIdentifier' = Closure(pollInterval', sessionIdentifier)
    /\ checks' = SubSeq(checks, 1, i - 1) \o SubSeq(checks, i + 1, Len(checks))
    /\ last' = [event |-> "check", failed |-> resp.rejected \/ ~resp.ok]
    /\ UNCHANGED <<keys, isSettingsOpen, step, draftVars, outcomeVars,
                   elapsedTime, mounted, effectPending, xhr, generating, clock>>
    /\ Observe

\* The i-th outstanding fetch of checkStatus settles with resp.
CheckSettles(i, resp) ==
    /\ Ready
    /\ UNCHANGED probe
    /\ i \in 1..Len(checks)
    /\ resp \in SettleResponses(i)
    /\ isVerifying' = AfterCheck(checks[i], resp).isVerifying
    /\ pollInterval' = AfterCheck(checks[i], resp).pollInterval
    /\ timerInterval' = AfterCheck(checks[i], resp).timerInterval
    /\ sincePoll' = Phase(pollInterval', sincePoll)
    /\ sessionIdentifier' = Closure(pollInterval', sessionIdentifier)
    /\ checks' = SubSeq(checks, 1, i - 1) \o SubSeq(checks, i + 1, Len(checks))
    /\ last' = [event |-> "check", failed |-> resp.rejected \/ ~resp.ok]
    /\ UNCHANGED <<keys, isSettingsOpen, step, draftVars, outcomeVars,
                   elapsedTime, mounted, effectPending, xhr, generating, clock>>
    /\ Observe

\* "Skip verification and view page".
SkipVerification ==
    /\ Ready
    /\ UNCHANGED probe
    /\ SkipButtonShown
    /\ isVerifying' = FALSE
    /\ last' = [event |-> "skip"]
    /\ UNCHANGED <<keys, isSettingsOpen, step, draftVars, outcomeVars,
                   elapsedTime, mounted, effectPending, pollVars, xhr, generating,
                   clock>>
    /\ Observe

\* handleReset, on "Upload Another".
handleReset ==
    /\ Ready
    /\ UNCHANGED probe
    /\ SuccessViewShown
    /\ file' = NoFile
    /\ step' = "UPLOAD"
    /\ successUrl' = NullText
    /\ errorMsg' = NullText
    /\ uploadProgress' = 0
    /\ isVerifying' = FALSE
    /\ elapsedTime' = 0
    /\ effectPending' = TRUE
    /\ last' = [event |-> "reset", ticking |-> timerInterval,
                polling |-> pollInterval]
    /\ UNCHANGED <<keys, isSettingsOpen, metadata, isGenerating,
                   mounted, pollVars, xhr, generating, clock>>
    /\ Observe

\* The component is torn down: the cleanup of the effect runs and the state
\* of the component is discarded (the model puts it back to the initial
\* values); what is still in flight can no longer change anything.
Unmount ==
    /\ Ready
    /\ UNCHANGED probe
    /\ mounted' = FALSE
    /\ pollInterval' = EffectCleanup.pollInterval
    /\ timerInterval' = EffectCleanup.timerInterval
    /\ checks' = <<>>
    /\ xhr' = NoXhr
    /\ generating' = {}
    /\ isSettingsOpen' = FALSE
    /\ step' = "UPLOAD"
    /\ file' = NoFile
    /\ metadata' = InitialMetadata
    /\ isGenerating' = FALSE
    /\ uploadProgress' = 0
    /\ successUrl' = NullText
    /\ errorMsg' = NullText
    /\ isVerifying' = FALSE
    /\ elapsedTime' = 0
    /\ sincePoll' = Phase(pollInterval', sincePoll)
    /\ sessionIdentifier' = Closure(pollInterval', sessionIdentifier)
    /\ visited' = <<>>
    /\ last' = [event |-> "unmount", step |-> step]
    /\ UNCHANGED <<keys, effectPending, clock>>

----------------------------------------------------------------------------
Next ==
    \/ \E selectedFile \in Files : handleFileSelect(selectedFile)
    \/ \E selectedFile \in Files : GenerationResolves(selectedFile.name)
    \/ Back
    \/ \E edited \in MetadataEdits : EditMetadata(edited)
    \/ OpenSettings
    \/ CloseSettings
    \/ handleKeysSave(SavedKeys)
    \/ handleUpload
    \/ \E percent \in ProgressValues : UploadProgress(percent)
    \/ \E response \in UploadResponses :
          UploadLoad(response.status, response.responseText)
    \/ UploadError
    \/ TryAgain
    \/ RunEffect
    \/ Tick
    \/ PollFires
    \/ \E i \in 1..MaxInflight : \E resp \in SettleResponses(i) :
          CheckSettles(i, resp)
    \/ SkipVerification
    \/ handleReset
    \/ Unmount

Spec == Init /\ [][Next]_vars

\* The response to a status check in flight is delivered.
ChecksSettle ==
    \E i \in 1..MaxInflight : \E resp \in SettleResponses(i) : CheckSettles(i, resp)

\* The behaviours in which React flushes the pending effect, the browser fires
\* the intervals that are set and every fetch of checkStatus settles.
SpecTimers ==
    /\ Spec
    /\ WF_vars(RunEffect)
    /\ WF_vars(Tick)
    /\ WF_vars(PollFires)
    /\ WF_vars(ChecksSettle)

\* The transport delivers the load event or the error event of the request.
TransportSettles ==
    \/ UploadError
    \/ \E response \in UploadResponses :
          UploadLoad(response.status, response.responseText)

\* A pending metadata-generation call resolves.
GenerationSettles == \E selectedFile \in Files : GenerationResolves(selectedFile.name)

\* The behaviours in which React flushes the pending effect, the transport
\* eventually responds or errors, and (the model lets a request settle only
\* after the generation calls) a pending generation call eventually resolves.
SpecFair ==
    /\ Spec
    /\ WF_vars(RunEffect)
    /\ WF_vars(GenerationSettles)
    /\ WF_vars(TransportSettles)

----------------------------------------------------------------------------
\* The failure classification applied on its own: the message handleUpload
\* stores for a failed request, and isAuthError of it.

ClassifyStatuses == {300, 403, 404, 500, 503}

BodyFragments ==
    { <<>>, <<"r","e","q"," ","1","4","0","3","5">>, <<"D","e","n","i","e","d">>,
      <<"4","0">>, <<"3"," ">>, MarkerInvalidKey, MarkerSignature }

ClassifyBodies == {a \o b : a \in BodyFragments, b \in BodyFragments}

\* The failed requests the classification is applied to: a response with a
\* status and a body, or no response at all.
ProbeInputs ==
    { [stage |-> "input", received |-> TRUE, status |-> st, responseText |-> b,
       message |-> <<>>, credentialFailure |-> FALSE] :
          st \in ClassifyStatuses, b \in ClassifyBodies }
    \cup
    { [stage |-> "input", received |-> FALSE, status |-> 0, responseText |-> <<>>,
       message |-> <<>>, credentialFailure |-> FALSE] }

InitClassify ==
    /\ keys = SavedKeys
    /\ InitialRender
    /\ probe \in ProbeInputs

\* The request fails with the probe's response: the transport rejects, the
\* catch of handleUpload takes the message, the error view classifies it.
ClassifyFailure ==
    /\ probe.stage = "input"
    /\ LET outcome == IF probe.received
                      THEN UploadOutcome(probe.status, probe.responseText)
                      ELSE NetworkFailure
           message == CaughtMessage(outcome)
       IN  probe' = [probe EXCEPT !.stage = "classified",
                                  !.message = message,
                                  !.credentialFailure = isAuthError(message)]
    /\ UNCHANGED <<keys, isSettingsOpen, step, draftVars, outcomeVars,
                   verifyVars, mounted, effectPending, pollVars, xhr,
                   generating, clock, last, visited>>

NextClassify == ClassifyFailure

SpecClassify == InitClassify /\ [][NextClassify]_vars

----------------------------------------------------------------------------
\* sanitizeHeaderValue applied on its own.  A text is a sequence of UTF-16
\* code units; a code unit below 0x80 that is not printable (or is the double quote,
\* the backslash or the grave accent) is written
\* "<0A>", a code unit from 0x80 on "<A0>", "<2014>" (its hexadecimal value).

\* The code units 0x00..0x7F in order.
AsciiChars ==
    <<
       "<00>", "<01>", "<02>", "<03>", "<04>", "<05>", "<06>", "<07>",
       "<08>", "<09>", "<0A>", "<0B>", "<0C>", "<0D>", "<0E>", "<0F>",
       "<10>", "<11>", "<12>", "<13>", "<14>", "<15>", "<16>", "<17>",
       "<18>", "<19>", "<1A>", "<1B>", "<1C>", "<1D>", "<1E>", "<1F>",
       " ", "!", "<22>", "#", "$", "%", "&", "'",
       "(", ")", "*", "+", ",", "-", ".", "/",
       "0", "1", "2", "3", "4", "5", "6", "7",
       "8", "9", ":", ";", "<", "=", ">", "?",
       "@", "A", "B", "C", "D", "E", "F", "G",
       "H", "I", "J", "K", "L", "M", "N", "O",
       "P", "Q", "R", "S", "T", "U", "V", "W",
       "X", "Y", "Z", "[", "<5C>", "]", "^", "_",
       "<60>", "a", "b", "c", "d", "e", "f", "g",
       "h", "i", "j", "k", "l", "m", "n", "o",
       "p", "q", "r", "s", "t", "u", "v", "w",
       "x", "y", "z", "{", "|", "}", "~", "<7F>" >>

\* Code units from 0x80 on that the texts of the model use, with their values:
\* no-break space, e with acute accent, n-dash
OtherChars == [c \in {"<A0>", "<E9>", "<2013>"} |->
                  CASE c = "<A0>" -> 160
                    [] c = "<E9>" -> 233
                    [] c = "<2013>" -> 8211]

\* charCodeAt
CharCode ==
    [c \in {AsciiChars[i] : i \in 1..Len(AsciiChars)} \cup DOMAIN OtherChars |->
        IF c \in DOMAIN OtherChars
        THEN OtherChars[c]
        ELSE (CHOOSE i \in 1..Len(AsciiChars) : AsciiChars[i] = c) - 1]

HexDigitsUpper ==
    <<"0","1","2","3","4","5","6","7","8","9","A","B","C","D","E","F">>

HexDigitsLower ==
    <<"0","1","2","3","4","5","6","7","8","9","a","b","c","d","e","f">>

\* [0-9A-F] under the flag i
IsHexDigit(c) ==
    \E i \in 1..16 : HexDigitsUpper[i] = c \/ HexDigitsLower[i] = c

HexDigitValue(c) ==
    (CHOOSE i \in 1..16 : HexDigitsUpper[i] = c \/ HexDigitsLower[i] = c) - 1

\* The pattern %[0-9A-F]{2} matches at the head of s.
EscapeAtHead(s) ==
    /\ Len(s) >= 3
    /\ s[1] = "%"
    /\ IsHexDigit(s[2])
    /\ IsHexDigit(s[3])

\* /%[0-9A-F]{2}/i.test(clean)
RECURSIVE HasEscape(_)
HasEscape(s) ==
    IF Len(s) < 3 THEN FALSE
    ELSE EscapeAtHead(s) \/ HasEscape(Tail(s))

\* The callback of the replace: decodeURIComponent of one escape gives the
\* code unit of a byte below 0x80 and throws URIError for any other byte (a
\* lone byte of a UTF-8 sequence), in which case the match is kept.
DecodeMatch(match) ==
    LET byte == 16 * HexDigitValue(match[2]) + HexDigitValue(match[3])
    IN  IF byte < 128 THEN <<AsciiChars[byte + 1]>> ELSE match

\* clean.replace(/%[0-9A-F]{2}/gi, ...): one pass from left to right over the
\* matches, which do not overlap.
RECURSIVE DecodePass(_)
DecodePass(s) ==
    IF s = <<>> THEN <<>>
    ELSE IF EscapeAtHead(s)
         THEN DecodeMatch(SubSeq(s, 1, 3)) \o DecodePass(SubSeq(s, 4, Len(s)))
         ELSE <<Head(s)>> \o DecodePass(Tail(s))

\* The while loop of step 1, entered with loopCount passes made.
RECURSIVE DecodeLoop(_, _)
DecodeLoop(clean, loopCount) ==
    IF HasEscape(clean) /\ loopCount < MaxDecodePasses
    THEN LET decoded == DecodePass(clean)
         IN  IF decoded = clean THEN clean
             ELSE DecodeLoop(decoded, loopCount + 1)
    ELSE clean

\* [\r\n]
LineBreaks == {c \in DOMAIN CharCode : CharCode[c] \in {10, 13}}

\* [^\x00-\xFF]
OutsideLatin1 == {c \in DOMAIN CharCode : CharCode[c] > 255}

\* \s among the code units up to 0xFF (the others are gone after step 3)
WhiteSpace == {c \in DOMAIN CharCode : CharCode[c] \in {9, 10, 11, 12, 13, 32, 160}}

\* s.replace(/[class]+/g, ' '): each maximal run of the class becomes one space.
RECURSIVE ReplaceRuns(_, _)
ReplaceRuns(s, class) ==
    IF s = <<>> THEN <<>>
    ELSE IF Head(s) \in class
         THEN IF Len(s) >= 2 /\ s[2] \in class
              THEN ReplaceRuns(Tail(s), class)
              ELSE <<" ">> \o ReplaceRuns(Tail(s), class)
         ELSE <<Head(s)>> \o ReplaceRuns(Tail(s), class)

\* s.replace(/[class]/g, ' '): each code unit of the class becomes a space.
ReplaceEach(s, class) ==
    [i \in 1..Len(s) |-> IF s[i] \in class THEN " " ELSE s[i]]

\* String.prototype.trim
RECURSIVE TrimStart(_)
TrimStart(s) ==
    IF s # <<>> /\ Head(s) \in WhiteSpace THEN TrimStart(Tail(s)) ELSE s

RECURSIVE TrimEnd(_)
TrimEnd(s) ==
    IF s # <<>> /\ s[Len(s)] \in WhiteSpace
    THEN TrimEnd(SubSeq(s, 1, Len(s) - 1))
    ELSE s

Trim(s) == TrimEnd(TrimStart(s))

\* A variant that cleans the text first and decodes it afterwards.
sanitizeDecodesLast(val) ==
    IF val = <<>> THEN <<>>
    ELSE LET unbroken == ReplaceRuns(val, LineBreaks)
             latin == ReplaceEach(unbroken, OutsideLatin1)
             collapsed == Trim(ReplaceRuns(latin, WhiteSpace))
         IN  DecodeLoop(collapsed, 0)

\* sanitizeHeaderValue
sanitizeHeaderValue(val) ==
    IF val = <<>> THEN <<>>
    ELSE LET decoded == DecodeLoop(val, 0)
             unbroken == ReplaceRuns(decoded, LineBreaks)
             latin == ReplaceEach(unbroken, OutsideLatin1)
         IN  Trim(ReplaceRuns(latin, WhiteSpace))

\* encodeURIComponent of one code unit: the unreserved characters stay, any
\* other one becomes the escapes of its UTF-8 bytes.  This is how a layer of
\* percent-encoding comes onto a text before it reaches sanitizeHeaderValue.
EscapeOf(byte) ==
    <<"%", HexDigitsUpper[(byte \div 16) + 1], HexDigitsUpper[(byte % 16) + 1]>>

Unreserved ==
    {AsciiChars[i + 1] : i \in (48..57) \cup (65..90) \cup (97..122)}
    \cup {"-", "_", ".", "!", "~", "*", "'", "(", ")"}

EncodeChar(c) ==
    LET code == CharCode[c]
    IN  IF c \in Unreserved THEN <<c>>
        ELSE IF code < 128 THEN EscapeOf(code)
        ELSE IF code < 2048
             THEN EscapeOf(192 + (code \div 64)) \o EscapeOf(128 + (code % 64))
             ELSE EscapeOf(224 + (code \div 4096))
                  \o EscapeOf(128 + ((code \div 64) % 64))
                  \o EscapeOf(128 + (code % 64))

RECURSIVE PercentEncode(_)
PercentEncode(s) ==
    IF s = <<>> THEN <<>> ELSE EncodeChar(Head(s)) \o PercentEncode(Tail(s))

\* The code units the plain texts are made of.
PlainChars == {"%", "2", "A", "x", " ", "<0A>", "<0D>", "<A0>", "<E9>", "<2013>"}

\* The plain texts: every text of up to MaxPlainLen code units.
RECURSIVE TextsOfLength(_)
TextsOfLength(n) ==
    IF n = 0 THEN {<<>>}
    ELSE {<<c>> \o t : c \in PlainChars, t \in TextsOfLength(n - 1)}

PlainTexts == UNION {TextsOfLength(n) : n \in 0..MaxPlainLen}

InitSanitize ==
    /\ keys = SavedKeys
    /\ InitialRender
    /\ probe \in {[stage |-> "input", layers |-> 0, plain |-> t, val |-> t,
                   clean |-> <<>>, again |-> <<>>] : t \in PlainTexts}

appVars == <<keys, isSettingsOpen, step, draftVars, outcomeVars, verifyVars,
             mounted, effectPending, pollVars, xhr, generating, clock, last,
             visited>>

\* One more layer of percent-encoding comes onto the text.
EncodeInput ==
    /\ probe.stage = "input"
    /\ probe.layers < MaxLayers
    /\ probe' = [probe EXCEPT !.val = PercentEncode(@), !.layers = @ + 1]
    /\ UNCHANGED appVars

\* The text is sanitized for a header.
SanitizeInput ==
    /\ probe.stage = "input"
    /\ probe' = [probe EXCEPT !.stage = "sanitized",
                              !.clean = sanitizeHeaderValue(probe.val)]
    /\ UNCHANGED appVars

\* The sanitized text is sanitized once more.
SanitizeAgain ==
    /\ probe.stage = "sanitized"
    /\ probe' = [probe EXCEPT !.stage = "resanitized",
                              !.again = sanitizeHeaderValue(probe.clean)]
    /\ UNCHANGED appVars

NextSanitize == EncodeInput \/ SanitizeInput \/ SanitizeAgain

SpecSanitize == InitSanitize /\ [][NextSanitize]_vars

----------------------------------------------------------------------------
\* The request uploadToInternetArchive builds, on its own: the identifier for
\* a title at a clock reading, the object name for a file name, the target of
\* the PUT and the public URL.

BaseUrl ==
    <<"h","t","t","p","s",":","/","/","s","3",".","u","s",".","a","r","c","h",
      "i","v","e",".","o","r","g">>

DefaultExtension == <<"m","p","3">>

\* The index of the last dot of s, 0 if there is none.
LastDot(s) ==
    IF \E i \in 1..Len(s) : s[i] = "."
    THEN CHOOSE i \in 1..Len(s) :
            s[i] = "." /\ \A j \in (i + 1)..Len(s) : s[j] # "."
    ELSE 0

\* file.name.split('.').pop() || 'mp3'
Extension(name) ==
    LET popped == SubSeq(name, LastDot(name) + 1, Len(name))
    IN  IF popped = <<>> THEN DefaultExtension ELSE popped

\* [a-zA-Z0-9.-]
IsObjectNameChar(c) ==
    \/ IsLowerAlnum(c)
    \/ \E i \in 1..26 : UpperCase[i] = c
    \/ c \in {".", "-"}

\* replace(/[^a-zA-Z0-9.-]/g, '_')
Underscored(name) ==
    [i \in 1..Len(name) |-> IF IsObjectNameChar(name[i]) THEN name[i] ELSE "_"]

\* replace(/\.[^.]+$/, ''): a last dot that is followed by something is cut
\* off with what follows it.
StripExtension(s) ==
    IF LastDot(s) > 0 /\ LastDot(s) < Len(s)
    THEN SubSeq(s, 1, LastDot(s) - 1)
    ELSE s

\* safeFilename
safeFilename(name) ==
    StripExtension(Underscored(name)) \o <<".">> \o Extension(name)

\* url: `${BASE_URL}/${identifier}/${safeFilename}`
PutTarget(identifier, name) ==
    BaseUrl \o <<"/">> \o identifier \o <<"/">> \o safeFilename(name)

\* The characters the titles of the model are made of.
TitleChars == {"a", "B", "7", "-", " ", "<E9>"}

RECURSIVE TitlesOfLength(_)
TitlesOfLength(n) ==
    IF n = 0 THEN {<<>>}
    ELSE {<<c>> \o t : c \in TitleChars, t \in TitlesOfLength(n - 1)}

RECURSIVE Repeated(_, _)
Repeated(t, times) ==
    IF times = 0 THEN <<>> ELSE t \o Repeated(t, times - 1)

\* The titles: every text of up to MaxTitleUnit characters, as it is and
\* repeated to the length the identifier keeps of a title and beyond it.
RequestTitles ==
    LET units == UNION {TitlesOfLength(n) : n \in 0..MaxTitleUnit}
    IN  units \cup
        {Substring0(Repeated(t, TitleLimit + 2), length) :
            t \in units \ {<<>>}, length \in {TitleLimit, TitleLimit + 2}}

\* The characters the file names of the model are made of.
FileNameChars == {"a", "Z", ".", " ", "-"}

RECURSIVE NamesOfLength(_)
NamesOfLength(n) ==
    IF n = 0 THEN {<<>>}
    ELSE {<<c>> \o t : c \in FileNameChars, t \in NamesOfLength(n - 1)}

\* The file names: every text of 1 to MaxNameLen characters.
RequestFileNames == UNION {NamesOfLength(n) : n \in 1..MaxNameLen}

\* The readings of Date.now() the requests are built at.
ClockReadings == 9..(9 + MaxClockTicks)

\* A title with the file name of the first file, or the empty title with a
\* file name.
RequestInputs ==
    {[title |-> t, name |-> <<"a",".","m","p","3">>] : t \in RequestTitles}
    \cup {[title |-> <<>>, name |-> n] : n \in RequestFileNames}

InitRequest ==
    /\ keys = SavedKeys
    /\ InitialRender
    /\ probe \in {[stage |-> "input", title |-> i.title, name |-> i.name,
                   now |-> 9, identifier |-> <<>>, target |-> <<>>,
                   publicUrl |-> <<>>, earlier |-> <<>>] : i \in RequestInputs}

\* A millisecond passes.
ClockAdvances ==
    /\ probe.now + 1 \in ClockReadings
    /\ probe' = [probe EXCEPT !.now = @ + 1]
    /\ UNCHANGED appVars

\* uploadToInternetArchive builds the request for the title and the file.
BuildRequest ==
    /\ probe.stage = "input"
    /\ LET identifier == generateIdentifier(probe.title, probe.now)
       IN  probe' = [probe EXCEPT !.stage = "built",
                                  !.identifier = identifier,
                                  !.target = PutTarget(identifier, probe.name),
                                  !.publicUrl = DetailsUrl(identifier)]
    /\ UNCHANGED appVars

\* The next attempt with the same title, at a later reading of the clock.
NextAttempt ==
    /\ probe.stage = "built"
    /\ probe.earlier = <<>>
    /\ probe.now + 1 \in ClockReadings
    /\ probe' = [probe EXCEPT !.stage = "input", !.earlier = probe.identifier,
                              !.now = @ + 1]
    /\ UNCHANGED appVars

NextRequest == ClockAdvances \/ BuildRequest \/ NextAttempt

SpecRequest == InitRequest /\ [][NextRequest]_vars

----------------------------------------------------------------------------
\* The credential probe: handleTestKeys of the settings modal and
\* verifyCredentials.

\* `LOW ${keys.accessKey}:${keys.secretKey}`
AuthorizationValue(accessKey, secretKey) ==
    <<"L","O","W"," ">> \o accessKey \o <<":">> \o secretKey

\* setRequestHeader takes a value of code units up to 0xFF without NUL, CR
\* and LF; for any other value it throws.
HeaderValueAccepted(value) ==
    \A i \in 1..Len(value) :
        CharCode[value[i]] <= 255 /\ CharCode[value[i]] \notin {0, 10, 13}

\* The characters typed into the key inputs.
KeyChars == {"K", " ", "<0A>", "<E9>", "<2013>"}

RECURSIVE KeysOfLength(_)
KeysOfLength(n) ==
    IF n = 0 THEN {<<>>}
    ELSE {<<c>> \o t : c \in KeyChars, t \in KeysOfLength(n - 1)}

\* The contents of a key input: every text of up to MaxKeyLen characters.
KeyTexts == UNION {KeysOfLength(n) : n \in 0..MaxKeyLen}

\* The statuses the probe request is answered with.
ProbeStatuses == {200, 204, 403, 503}

InitVerify ==
    /\ keys = NoKeys
    /\ InitialRender
    /\ probe \in {[stage |-> "input", accessKey |-> a, secretKey |-> k,
                   verifying |-> FALSE, verificationStatus |-> "idle",
                   promise |-> "none", isValid |-> FALSE,
                   received |-> FALSE, status |-> 0] :
                      a \in KeyTexts, k \in KeyTexts}

\* handleTestKeys up to its await: it returns when a trimmed key is empty,
\* else it calls verifyCredentials, whose executor opens the request, sets
\* the Authorization header and sends; when setRequestHeader throws, the
\* executor ends and the promise is rejected.
handleTestKeys ==
    /\ probe.stage = "input"
    /\ LET cleanedAccess == Trim(probe.accessKey)
           cleanedSecret == Trim(probe.secretKey)
       IN  IF cleanedAccess = <<>> \/ cleanedSecret = <<>>
           THEN probe' = [probe EXCEPT !.stage = "ignored"]
           ELSE IF HeaderValueAccepted(
                       AuthorizationValue(cleanedAccess, cleanedSecret))
           THEN probe' = [probe EXCEPT !.stage = "probing",
                                       !.verifying = TRUE,
                                       !.promise = "pending"]
           ELSE probe' = [probe EXCEPT !.stage = "thrown",
                                       !.verifying = TRUE,
                                       !.promise = "rejected"]
    /\ UNCHANGED appVars

\* xhr.onload of the probe: resolve(true) for status 200, else resolve(false);
\* handleTestKeys continues after its await.
ProbeLoads(status) ==
    /\ probe.stage = "probing"
    /\ LET isValid == (status = 200)
       IN  probe' = [probe EXCEPT !.stage = "settled",
                       !.promise = "resolved",
                       !.isValid = isValid,
                       !.received = TRUE,
                       !.status = status,
                       !.verificationStatus =
                           IF isValid THEN "success" ELSE "error",
                       !.verifying = FALSE]
    /\ UNCHANGED appVars

\* xhr.onerror of the probe: resolve(false).
ProbeFails ==
    /\ probe.stage = "probing"
    /\ probe' = [probe EXCEPT !.stage = "settled",
                              !.promise = "resolved",
                              !.isValid = FALSE,
                              !.verificationStatus = "error",
                              !.verifying = FALSE]
    /\ UNCHANGED appVars

\* The catch and the finally of handleTestKeys, after a rejection.
TestKeysCatches ==
    /\ probe.stage = "thrown"
    /\ probe' = [probe EXCEPT !.stage = "settled",
                              !.verificationStatus = "error",
                              !.verifying = FALSE]
    /\ UNCHANGED appVars

NextVerify ==
    \/ handleTestKeys
    \/ \E status \in ProbeStatuses : ProbeLoads(status)
    \/ ProbeFails
    \/ TestKeysCatches

SpecVerify == InitVerify /\ [][NextVerify]_vars

----------------------------------------------------------------------------
\* The headers of the PUT: uploadToInternetArchive from the headers record to
\* xhr.send, and the outcome of the request that was sent.

\* cleanTags: the sanitized tags that are not empty
RECURSIVE CleanTags(_)
CleanTags(tags) ==
    IF tags = <<>> THEN <<>>
    ELSE LET clean == sanitizeHeaderValue(Head(tags))
         IN  (IF clean = <<>> THEN <<>> ELSE <<clean>>) \o CleanTags(Tail(tags))

\* cleanTags.join(';')
RECURSIVE JoinTags(_)
JoinTags(tags) ==
    IF tags = <<>> THEN <<>>
    ELSE IF Len(tags) = 1 THEN Head(tags)
    ELSE Head(tags) \o <<";">> \o JoinTags(Tail(tags))

\* The headers record, with x-archive-meta-subject when a tag is left.
RequestHeaders(draft, credentials) ==
    LET fixed ==
            [name \in {"Authorization", "x-archive-auto-make-bucket",
                       "x-archive-meta-mediatype", "x-archive-meta-collection",
                       "x-archive-meta-title", "x-archive-meta-creator",
                       "x-archive-meta-description",
                       "x-archive-interactive-priority"} |->
                CASE name = "Authorization" ->
                        AuthorizationValue(credentials.accessKey,
                                           credentials.secretKey)
                  [] name = "x-archive-auto-make-bucket" -> <<"1">>
                  [] name = "x-archive-meta-mediatype" -> <<"a","u","d","i","o">>
                  [] name = "x-archive-meta-collection" ->
                        <<"o","p","e","n","s","o","u","r","c","e","_",
                          "a","u","d","i","o">>
                  [] name = "x-archive-meta-title" ->
                        sanitizeHeaderValue(draft.title)
                  [] name = "x-archive-meta-creator" ->
                        sanitizeHeaderValue(draft.creator)
                  [] name = "x-archive-meta-description" ->
                        sanitizeHeaderValue(draft.description)
                  [] name = "x-archive-interactive-priority" -> <<"1">>]
        cleanTags == CleanTags(draft.tags)
    IN  IF cleanTags = <<>> THEN fixed
        ELSE [name \in DOMAIN fixed \cup {"x-archive-meta-subject"} |->
                 IF name = "x-archive-meta-subject" THEN JoinTags(cleanTags)
                 ELSE fixed[name]]

\* The drafts and the keys the requests are built from.
HeaderDrafts ==
    { InitialMetadata,
      generateMetadataFromContext(<<"a",".","m","p","3">>),
      [title |-> <<"E","%","0","0","p">>, description |-> <<"<2013>">>,
       tags |-> << <<"a">>, <<" ">>, <<"b","%","0","A">> >>,
       creator |-> CreatorDefault] }

HeaderKeys == {SavedKeys, [accessKey |-> <<"A","<2013>">>, secretKey |-> <<"S","K">>]}

\* The request of an upload attempt is open and its headers record is built.
InitHeaders ==
    /\ keys \in HeaderKeys
    /\ isSettingsOpen = FALSE
    /\ step = "UPLOADING"
    /\ file \in Files
    /\ metadata \in HeaderDrafts
    /\ isGenerating = FALSE
    /\ uploadProgress = 0
    /\ successUrl = NullText
    /\ errorMsg = NullText
    /\ isVerifying = FALSE
    /\ elapsedTime = 0
    /\ mounted = TRUE
    /\ effectPending = FALSE
    /\ pollInterval = FALSE
    /\ timerInterval = FALSE
    /\ sincePoll = 0
    /\ sessionIdentifier = <<>>
    /\ checks = <<>>
    /\ clock = 1
    /\ xhr = [file |-> file, metadata |-> metadata, keys |-> keys,
              identifier |-> generateIdentifier(metadata.title, clock),
              reported |-> <<>>]
    /\ generating = {}
    /\ last = [event |-> "publish"]
    /\ visited = <<Uploading(0)>>
    /\ probe = [stage |-> "open", headers |-> RequestHeaders(metadata, keys),
                failing |-> {}, sent |-> <<>>]

\* The headers setRequestHeader throws for.
RejectedHeaders(headers) ==
    {name \in DOMAIN headers : ~HeaderValueAccepted(headers[name])}

\* A variant without the try around setRequestHeader: the first exception
\* ends the executor before xhr.send.
SetRequestHeadersOrAbort(failing) ==
    /\ probe.stage = "open"
    /\ RejectedHeaders(probe.headers) \subseteq failing
    /\ failing \subseteq DOMAIN probe.headers
    /\ probe' = IF failing = {}
                THEN [probe EXCEPT !.stage = "sent", !.sent = probe.headers]
                ELSE [probe EXCEPT !.stage = "aborted", !.failing = failing]
    /\ UNCHANGED appVars

\* Object.entries(headers).forEach with its try/catch, then xhr.send(file):
\* setRequestHeader throws for the headers in failing, the others are set.
SetRequestHeaders(failing) ==
    /\ probe.stage = "open"
    /\ RejectedHeaders(probe.headers) \subseteq failing
    /\ failing \subseteq DOMAIN probe.headers
    /\ probe' = [probe EXCEPT
                    !.stage = "sent",
                    !.failing = failing,
                    !.sent = [name \in DOMAIN probe.headers \ failing |->
                                 probe.headers[name]]]
    /\ UNCHANGED appVars

\* The request that was sent is answered.
SentRequestLoads(status, responseText) ==
    /\ probe.stage = "sent"
    /\ UploadLoad(status, responseText)

\* The request that was sent fails in the network.
SentRequestFails ==
    /\ probe.stage = "sent"
    /\ UploadError

NextHeaders ==
    \/ \E failing \in SUBSET DOMAIN probe.headers : SetRequestHeaders(failing)
    \/ \E response \in UploadResponses :
          SentRequestLoads(response.status, response.responseText)
    \/ SentRequestFails

SpecHeaders == InitHeaders /\ [][NextHeaders]_vars

----------------------------------------------------------------------------
\* The settings modal: editing the key fields, testing them, the answer to
\* the test and saving, in any interleaving.

\* The texts typed into a key input of the modal.
ModalKeyTexts == {<<>>, <<"K">>, <<" ","K">>, <<"Q">>, <<"<2013>">>}

\* No test request is in flight.
NoTest == [none |-> TRUE]

\* localStorage holds no ia_keys item.
NothingStored == [none |-> TRUE]

\* The state of the application that the modal leaves alone.
modalRest == <<step, draftVars, outcomeVars, verifyVars, mounted,
               effectPending, pollVars, xhr, generating, clock, last, visited>>

\* The effect on isOpen: when isOpen changed in the render, the fields are
\* loaded from localStorage (when it holds keys) and the status is reset.
ModalEffect(p, wasOpen, isOpen) ==
    IF wasOpen = isOpen THEN p
    ELSE [p EXCEPT
            !.accessKey = IF p.stored = NothingStored THEN p.accessKey
                          ELSE p.stored.accessKey,
            !.secretKey = IF p.stored = NothingStored THEN p.secretKey
                          ELSE p.stored.secretKey,
            !.verificationStatus = "idle"]

\* The modal is mounted and open with empty fields, no keys are stored.
InitSettings ==
    /\ keys = NoKeys
    /\ InitialRender
    /\ probe = [stage |-> "settings", accessKey |-> <<>>, secretKey |-> <<>>,
                verifying |-> FALSE, verificationStatus |-> "idle",
                test |-> NoTest, accepted |-> {}, stored |-> NothingStored]

\* onChange of the access key input.
ChangeAccessKey(text) ==
    /\ SettingsModalOpen
    /\ text # probe.accessKey
    /\ probe' = [probe EXCEPT !.accessKey = text, !.verificationStatus = "idle"]
    /\ UNCHANGED appVars

\* onChange of the secret key input.
ChangeSecretKey(text) ==
    /\ SettingsModalOpen
    /\ text # probe.secretKey
    /\ probe' = [probe EXCEPT !.secretKey = text, !.verificationStatus = "idle"]
    /\ UNCHANGED appVars

\* handleTestKeys up to its await, from the test button (disabled while
\* verifying or with an empty field): with an empty trimmed key it returns,
\* else verifyCredentials is called with the trimmed pair; its promise is
\* rejected at once when setRequestHeader throws.
TestKeysClicked ==
    /\ SettingsModalOpen
    /\ ~probe.verifying
    /\ probe.accessKey # <<>>
    /\ probe.secretKey # <<>>
    /\ LET cleanedAccess == Trim(probe.accessKey)
           cleanedSecret == Trim(probe.secretKey)
       IN  /\ cleanedAccess # <<>>
           /\ cleanedSecret # <<>>
           /\ probe' = [probe EXCEPT
                 !.verifying = TRUE,
                 !.verificationStatus = "idle",
                 !.test = [accessKey |-> cleanedAccess,
                           secretKey |-> cleanedSecret,
                           thrown |-> ~HeaderValueAccepted(
                               AuthorizationValue(cleanedAccess, cleanedSecret))]]
    /\ UNCHANGED appVars

\* The probe is answered with status (0 for the error event) and
\* handleTestKeys continues after its await: the status becomes success or
\* error, verifying ends.
TestSettles(status) ==
    /\ probe.test # NoTest
    /\ ~probe.test.thrown
    /\ LET isValid == (status = 200)
       IN  probe' = [probe EXCEPT
              !.verificationStatus = IF isValid THEN "success" ELSE "error",
              !.verifying = FALSE,
              !.accepted = IF isValid
                           THEN probe.accepted \cup
                                {<<probe.test.accessKey, probe.test.secretKey>>}
                           ELSE probe.accepted,
              !.test = NoTest]
    /\ UNCHANGED appVars

\* The catch and the finally of handleTestKeys after a rejection.
TestRejected ==
    /\ probe.test # NoTest
    /\ probe.test.thrown
    /\ probe' = [probe EXCEPT !.verificationStatus = "error",
                              !.verifying = FALSE,
                              !.test = NoTest]
    /\ UNCHANGED appVars

\* handleSave with two non-empty trimmed keys (else it alerts and returns):
\* the trimmed pair and the flag are stored, onSave sets the keys of the
\* application, onClose closes the modal, and the effect on isOpen runs.
handleSave ==
    /\ SettingsModalOpen
    /\ LET cleanedAccess == Trim(probe.accessKey)
           cleanedSecret == Trim(probe.secretKey)
           newKeys == [accessKey |-> cleanedAccess, secretKey |-> cleanedSecret]
           isVerified == (probe.verificationStatus = "success")
       IN  /\ cleanedAccess # <<>>
           /\ cleanedSecret # <<>>
           /\ keys' = newKeys
           /\ isSettingsOpen' = FALSE
           /\ probe' = ModalEffect(
                  [probe EXCEPT !.stored = [accessKey |-> cleanedAccess,
                                            secretKey |-> cleanedSecret,
                                            verified |-> isVerified]],
                  TRUE, FALSE)
    /\ UNCHANGED modalRest

\* The Cancel button: onClose.
CancelSettings ==
    /\ SettingsModalOpen
    /\ isSettingsOpen
    /\ isSettingsOpen' = FALSE
    /\ probe' = ModalEffect(probe, TRUE, keys = NoKeys /\ step = "UPLOAD")
    /\ UNCHANGED <<keys, modalRest>>

\* The settings button of the header.
ReopenSettings ==
    /\ ~isSettingsOpen
    /\ isSettingsOpen' = TRUE
    /\ probe' = ModalEffect(probe, SettingsModalOpen, TRUE)
    /\ UNCHANGED <<keys, modalRest>>

NextSettings ==
    \/ \E text \in ModalKeyTexts : ChangeAccessKey(text)
    \/ \E text \in ModalKeyTexts : ChangeSecretKey(text)
    \/ TestKeysClicked
    \/ \E status \in ProbeStatuses \cup {0} : TestSettles(status)
    \/ TestRejected
    \/ handleSave
    \/ CancelSettings
    \/ ReopenSettings

SpecSettings == InitSettings /\ [][NextSettings]_vars

----------------------------------------------------------------------------
\* Properties.

\* C1: when the transport has reported progress p1..pn and the PUT then ends
\* with a status in 200..299, the orchestrator has visited Uploading(0),
\* Uploading(p1), ..., Uploading(pn) and then Succeeded(url), nothing else
\* in between, and url is https://archive.org/details/ followed by the
\* identifier generated for the attempt from the submitted title and the
\* clock reading.
C1_ProgressThenSucceeded ==
    (/\ last.event = "settled"
     /\ last.response.received
     /\ last.response.status \in 200..299)
    => LET reported == last.request.reported
           identifier == generateIdentifier(last.request.metadata.title, clock)
           url == DetailsBase \o identifier
       IN  /\ Len(visited) = Len(reported) + 2
           /\ visited[1] = Uploading(0)
           /\ \A i \in 1..Len(reported) : visited[i + 1] = Uploading(reported[i])
           /\ visited[Len(visited)] = Succeeded(url)
           /\ StepState = Succeeded(url)

C1_Witness ==
    /\ last.event = "settled"
    /\ last.response.received
    /\ last.response.status = 299
    /\ last.request.reported = <<10, 100>>
    /\ Len(visited) = 4
    /\ step = "SUCCESS"

\* C2: when the PUT ends with a status outside 200..299, or the transport
\* reports a network failure, the orchestrator moves to Failed(message) and
\* never to Succeeded; for a status failure the message contains the decimal
\* status and the raw response body.
C2_FailureThenFailed ==
    (/\ last.event = "settled"
     /\ \/ ~last.response.received
        \/ last.response.status < 200
        \/ last.response.status > 299)
    => /\ step = "ERROR"
       /\ visited[Len(visited)] = Failed(errorMsg)
       /\ StepState = Failed(errorMsg)
       /\ \A i \in 1..Len(visited) : visited[i].step # "SUCCESS"
       /\ successUrl = NullText
       /\ last.response.received =>
            /\ Includes(errorMsg, Digits(last.response.status))
            /\ Includes(errorMsg, last.response.responseText)

C2_Witness ==
    /\ last.event = "settled"
    /\ last.response.received
    /\ last.response.status = 403
    /\ last.response.responseText # <<>>
    /\ step = "ERROR"
    /\ Includes(errorMsg, last.response.responseText)

\* C3: verification stops being pending only by a skip, a reset, a teardown,
\* or a check whose response satisfies the completion condition (the
\* response is successful, its metadata.identifier is the requested
\* identifier, and its files contain an entry of format PNG); a check whose
\* response does not satisfy it leaves the pending flag as it was, a check
\* whose response satisfies it ends it.
C3_DoneOnlyAtSatisfyingCheck ==
    [][ LET Satisfies(resp, identifier) ==
                /\ ~resp.rejected
                /\ resp.ok
                /\ resp.hasMetadata
                /\ resp.metadataIdentifier = identifier
                /\ resp.hasFiles
                /\ \E k \in 1..Len(resp.formats) : resp.formats[k] = "PNG"
        IN  /\ last'.event = "check" =>
                  \A i \in 1..Len(checks) : \A resp \in SettleResponses(i) :
                      \/ IF Satisfies(resp, checks[i].identifier)
                         THEN ~isVerifying'
                         ELSE isVerifying' = isVerifying
                      \/ ~CheckSettles(i, resp)
            /\ (isVerifying /\ ~isVerifying') =>
                  \/ SkipVerification
                  \/ handleReset
                  \/ Unmount
                  \/ \E i \in 1..Len(checks) : \E resp \in SettleResponses(i) :
                        /\ CheckSettles(i, resp)
                        /\ Satisfies(resp, checks[i].identifier) ]_vars

C3_Witness ==
    /\ step = "SUCCESS"
    /\ clock = 1
    /\ last.event = "check"
    /\ ~last.failed
    /\ ~isVerifying
    /\ ~timerInterval
    /\ ~pollInterval
    /\ elapsedTime > 10
    /\ elapsedTime <= SkipThreshold
    /\ checks = <<>>

\* C4: after a manual skip the session is stopped: the step that follows a
\* skip neither issues a status check nor increments the elapsed time.
C4_SkipStopsSession ==
    [][ last.event = "skip" =>
            /\ ~PollFires
            /\ ~(Tick /\ elapsedTime' # elapsedTime)
            /\ Len(checks') <= Len(checks) ]_vars

\* C5: after a reset the orchestrator is Idle and the selected file, the
\* metadata (title, description, tags, creator), the upload progress and the
\* elapsed time have their initial values.
C5_ResetRestoresInitialValues ==
    last.event = "reset" =>
        /\ step = "UPLOAD"
        /\ file = NoFile
        /\ metadata = InitialMetadata
        /\ uploadProgress = 0
        /\ elapsedTime = 0

\* C6: once Succeeded has been left by a reset (and React has run the
\* cleanup) or the component has been torn down, neither the elapsed-time
\* ticker nor the recurring check is set, and no tick or poll happens outside
\* the mounted Succeeded step.
C6_LeavingStopsTimers ==
    [][ /\ (~mounted' \/ (~effectPending' /\ step' # "SUCCESS"))
              => (~timerInterval' /\ ~pollInterval')
        /\ (Tick \/ PollFires) => (mounted /\ step = "SUCCESS") ]_vars

C6_Witness ==
    /\ last.event = "reset"
    /\ last.ticking
    /\ last.polling
    /\ ~effectPending
    /\ ~timerInterval
    /\ ~pollInterval

C8_CredentialFailureExactly ==
    (probe # NoProbe /\ probe.stage = "classified") =>
        (probe.credentialFailure <=>
            /\ probe.received
            /\ \/ probe.status = 403
               \/ Includes(probe.responseText, MarkerInvalidKey)
               \/ Includes(probe.responseText, MarkerSignature))

\* C9: publish moves Reviewing to Uploading(0), issuing the request, only
\* when a file is selected and credentials are present; without credentials
\* it opens the credential entry and leaves step, file, metadata and
\* progress unchanged and issues no request.
C9_PublishNeedsFileAndKeys ==
    [][ /\ handleUpload =>
              IF file # NoFile /\ keys # NoKeys
              THEN /\ step' = "UPLOADING"
                   /\ uploadProgress' = 0
                   /\ xhr' # NoXhr
              ELSE /\ keys = NoKeys => isSettingsOpen'
                   /\ UNCHANGED <<step, file, metadata, uploadProgress, xhr>>
        /\ (step' = "UPLOADING" /\ step # "UPLOADING") =>
              /\ step = "REVIEW"
              /\ file # NoFile
              /\ keys # NoKeys
              /\ uploadProgress' = 0 ]_vars

C9_Witness ==
    /\ last.event = "publishRefused"
    /\ keys = NoKeys
    /\ isSettingsOpen
    /\ step = "REVIEW"
    /\ file # NoFile
    /\ xhr = NoXhr

\* C10: Try Again moves Failed to Reviewing and leaves the selected file and
\* the metadata unchanged, and a publish that follows it sends that file and
\* that metadata.
C10_TryAgainKeepsDraft ==
    [][ /\ TryAgain =>
              /\ step' = "REVIEW"
              /\ file' = file
              /\ metadata' = metadata
              /\ file' # NoFile
        /\ (step = "ERROR" /\ step' = "REVIEW") =>
              /\ file' = file
              /\ metadata' = metadata
        /\ (last.event = "tryAgain" /\ last'.event = "publish") =>
              /\ xhr'.file = last.file
              /\ xhr'.metadata = last.metadata ]_vars

C10_Witness ==
    /\ last.event = "publish"
    /\ errorMsg # NullText
    /\ step = "UPLOADING"
    /\ xhr # NoXhr
    /\ xhr.file = file
    /\ xhr.metadata = metadata


\* C11: a file selection in Idle moves the orchestrator to Reviewing with the
\* file recorded while the metadata-generation request is still pending and
\* the metadata is as it was; the generated metadata is applied by a later
\* step, when the request resolves, which changes neither step nor file.
C11_SelectionDoesNotWait ==
    [][ last'.event = "draft" =>
          /\ \A f \in Files :
                handleFileSelect(f) =>
                    /\ step = "UPLOAD"
                    /\ step' = "REVIEW"
                    /\ file' = f
                    /\ metadata' = metadata
                    /\ isGenerating'
                    /\ f.name \in generating'
          /\ \A f \in Files :
                GenerationResolves(f.name) =>
                    /\ f.name \in generating
                    /\ f.name \notin generating'
                    /\ UNCHANGED <<step, file>>
          /\ (step = "UPLOAD" /\ step' = "REVIEW") =>
                \E f \in Files : handleFileSelect(f) ]_vars

C11_Witness ==
    /\ step = "REVIEW"
    /\ file # NoFile
    /\ file.name \in generating
    /\ isGenerating
    /\ metadata = InitialMetadata
    /\ clock = 0


C13_ChecksSequential ==
    Cardinality({i \in 1..Len(checks) : checks[i].live}) <= 1

\* C13 as the code has it: the checks are not serialized.  Whenever the poll
\* interval is due it fires, whether or not checks of the session are
\* outstanding (up to the bound on outstanding checks), and the firing adds
\* one check for the session's identifier and leaves the outstanding ones
\* as they are.
C13_ChecksMayOverlap ==
    [][ /\ (Ready /\ pollInterval /\ sincePoll = PollSeconds
                  /\ Len(checks) < MaxInflight) => ENABLED PollFires
        /\ (last'.event = "poll" /\ PollFires) =>
              /\ pollInterval
              /\ sincePoll = PollSeconds
              /\ Len(checks') = Len(checks) + 1
              /\ SubSeq(checks', 1, Len(checks)) = checks
              /\ checks'[Len(checks')].identifier = sessionIdentifier
              /\ checks'[Len(checks')].live ]_vars

C13_Witness ==
    /\ last.event = "poll"
    /\ step = "SUCCESS"
    /\ Len(checks) = 2
    /\ checks[1].live
    /\ checks[2].live
    /\ checks[1].identifier = sessionIdentifier
    /\ checks[2].identifier = sessionIdentifier


\* C14: the effect that starts a polling session on entering Succeeded
\* issues the first status check at once, with the elapsed time at 0; after
\* that the poll fires only when the elapsed time is a positive multiple of 5
\* seconds, 5 seconds after the previous check of the timer, and a poll that
\* is due fires before the next second is counted: the n-th check is issued
\* at 5*(n-1) seconds.
C14_FirstCheckAtOnceThenEveryFive ==
    [][ /\ (RunEffect /\ step = "SUCCESS" /\ Truthy(successUrl)) =>
              /\ elapsedTime' = 0
              /\ sincePoll' = 0
              /\ pollInterval'
              /\ timerInterval'
              /\ Len(checks') = Len(checks) + 1
              /\ checks'[Len(checks')] =
                    [identifier |-> LastSegment(successUrl), live |-> TRUE]
        /\ (last'.event = "poll" /\ PollFires) =>
              /\ elapsedTime > 0
              /\ elapsedTime % PollSeconds = 0
              /\ sincePoll = PollSeconds
              /\ sincePoll' = 0
        /\ (step' = "SUCCESS" /\ pollInterval' /\ timerInterval') =>
              \/ sincePoll' = elapsedTime' % PollSeconds
              \/ /\ sincePoll' = PollSeconds
                 /\ elapsedTime' > 0
                 /\ elapsedTime' % PollSeconds = 0
        /\ (last'.event = "tick" /\ Tick /\ pollInterval) =>
              sincePoll < PollSeconds ]_vars

C14_Witness ==
    /\ last.event = "poll"
    /\ step = "SUCCESS"
    /\ clock = 1
    /\ elapsedTime = 10
    /\ sincePoll = 0
    /\ pollInterval
    /\ timerInterval
    /\ isVerifying


\* C15: once a status check signals completion (verification stops being
\* pending at the response of a check), the polling session is over: both
\* timers are cleared in that step, so that no further check is issued by
\* the timer and the elapsed time is not incremented again.
C15_CompletionEndsSession ==
    [][ (last'.event = "check" /\ isVerifying /\ ~isVerifying') =>
            /\ ~pollInterval'
            /\ ~timerInterval' ]_vars


\* C16: polling has no built-in timeout.  Verification stops being pending
\* only at a check that meets the completion condition, at the skip action,
\* at a reset or when the component goes away, never at a tick of the
\* elapsed-time counter or at a firing of the poll timer; and while the
\* Succeeded state is pending both timers stay set, so that each further
\* second increments the elapsed time and each fifth one issues a check.
C16_NoBuiltInTimeout ==
    [][ /\ (isVerifying /\ ~isVerifying') =>
              /\ last'.event \in {"check", "skip", "reset"} \/ ~mounted'
              /\ (mounted' /\ last'.event = "check") =>
                    \E i \in 1..Len(checks) : \E resp \in SettleResponses(i) :
                        /\ CheckCompletes(resp, checks[i].identifier)
                        /\ CheckSettles(i, resp)
        /\ (last'.event \in {"tick", "poll"} /\ (Tick \/ PollFires)) =>
              /\ isVerifying' = isVerifying
              /\ pollInterval' = pollInterval
              /\ timerInterval' = timerInterval
              /\ step' = step
        /\ (last'.event = "tick" /\ Tick /\ timerInterval) =>
              elapsedTime' = elapsedTime + 1
        /\ (step = "SUCCESS" /\ isVerifying /\ Ready) =>
              /\ pollInterval
              /\ timerInterval
              /\ (elapsedTime < MaxElapsed /\ sincePoll < PollSeconds) =>
                    ENABLED Tick
              /\ (sincePoll = PollSeconds /\ Len(checks) < MaxInflight) =>
                    ENABLED PollFires ]_vars

\* A check fails after the threshold of the skip button has passed and the
\* session is still pending with both timers set.
C16_Witness ==
    /\ step = "SUCCESS"
    /\ isVerifying
    /\ elapsedTime > SkipThreshold
    /\ last = [event |-> "check", failed |-> TRUE]
    /\ pollInterval
    /\ timerInterval
    /\ clock = 1


C18_RequestFixedAtSubmission ==
    [][ /\ (xhr = NoXhr /\ xhr' # NoXhr) =>
              /\ handleUpload
              /\ xhr'.file = file
              /\ xhr'.metadata = metadata
              /\ xhr'.keys = keys
              /\ xhr'.identifier = generateIdentifier(metadata.title, clock')
        /\ (xhr # NoXhr /\ xhr' # NoXhr) =>
              /\ xhr'.file = xhr.file
              /\ xhr'.metadata = xhr.metadata
              /\ xhr'.keys = xhr.keys
              /\ xhr'.identifier = xhr.identifier ]_vars

\* A generated draft arrives after the publish action: the metadata of the
\* component differs from the metadata of the open request.
C18_Witness ==
    /\ step = "UPLOADING"
    /\ xhr # NoXhr
    /\ last = [event |-> "draft"]
    /\ metadata # xhr.metadata
    /\ xhr.file = file
    /\ clock = 1


\* C19: sanitize is idempotent: for every text, also one that carries more
\* than five layers of percent-encoding, sanitizing the sanitized text gives
\* the sanitized text again.
C19_SanitizeIdempotent ==
    (probe # NoProbe /\ probe.stage = "resanitized") => probe.again = probe.clean


\* C20: for every text the result of sanitize is a text (the function does
\* not fail; at worst the result is empty) that holds no carriage return and
\* no line feed and only code units up to 0xFF, also where the decoding of
\* step 1 has produced a line break.
C20_SanitizedIsHeaderSafe ==
    (probe # NoProbe /\ probe.stage \in {"sanitized", "resanitized"}) =>
        /\ probe.clean \in Seq(DOMAIN CharCode)
        /\ \A i \in 1..Len(probe.clean) :
              /\ probe.clean[i] \notin LineBreaks
              /\ CharCode[probe.clean[i]] <= 255
        /\ (\A i \in 1..Len(probe.val) :
               probe.val[i] \in WhiteSpace \cup OutsideLatin1) => probe.clean = <<>>

\* A text under two layers of encoding whose decoding gives a line feed
\* between two other characters.
C20_Witness ==
    /\ probe # NoProbe
    /\ probe.stage = "sanitized"
    /\ probe.layers = 2
    /\ DecodeLoop(probe.val, 0) = <<"x", "<0A>", "A">>
    /\ probe.clean = <<"x", " ", "A">>


\* C21: sanitize resolves nested percent-encoding in at most five decoding
\* passes: for a plain text under n layers of percent-encoding, n from 1 to
\* 5, the sanitized encoded text is the sanitized plain text.
C21_NestedEncodingResolved ==
    (/\ probe # NoProbe
     /\ probe.stage = "sanitized"
     /\ probe.layers \in 1..MaxDecodePasses)
    => probe.clean = sanitizeHeaderValue(probe.plain)


\* C22: identifiers are distinct across attempts: for the same title, the
\* identifier built at a later reading of the clock differs from the earlier
\* one; and the identifier of an attempt is computed once, the same text
\* being the path segment of the PUT target and the end of the public URL.
C22_IdentifiersDistinct ==
    (probe # NoProbe /\ probe.stage = "built") =>
        /\ probe.earlier # <<>> => probe.identifier # probe.earlier
        /\ probe.publicUrl = DetailsBase \o probe.identifier
        /\ LET prefix == Len(BaseUrl) + 1
           IN  /\ SubSeq(probe.target, prefix + 1, prefix + Len(probe.identifier))
                     = probe.identifier
               /\ probe.target[prefix] = "/"
               /\ probe.target[prefix + Len(probe.identifier) + 1] = "/"
               /\ SubSeq(probe.target, 1, prefix - 1) = BaseUrl

\* The second attempt with a title longer than the identifier keeps.
C22_Witness ==
    /\ probe # NoProbe
    /\ probe.stage = "built"
    /\ probe.earlier # <<>>
    /\ probe.now = 10
    /\ Len(probe.title) > TitleLimit
    /\ Len(probe.identifier) = Len(probe.earlier) + 1


\* C23: for every title, the empty one and one of disallowed characters only
\* included, the identifier is not empty, is made of lowercase ASCII letters,
\* digits and hyphens only, neither starts nor ends with a hyphen, and is no
\* longer than the prefix, 50 characters of the title, a hyphen and the
\* digits of the clock reading.
C23_IdentifierWellFormed ==
    (probe # NoProbe /\ probe.stage = "built") =>
        LET id == probe.identifier
        IN  /\ id # <<>>
            /\ \A i \in 1..Len(id) :
                  id[i] \in {LowerCase[k] : k \in 1..26}
                              \cup {DigitChars[k] : k \in 1..10} \cup {"-"}
            /\ id[1] # "-"
            /\ id[Len(id)] # "-"
            /\ Len(id) <= Len(IdentifierPrefix) + TitleLimit + 1
                              + Len(Digits(9 + MaxClockTicks))
            /\ SubSeq(id, 1, Len(IdentifierPrefix)) = IdentifierPrefix

\* A title of 52 characters, every second one disallowed: the identifier
\* keeps 50 characters of the cleaned title, the last of them a hyphen.
C23_Witness ==
    /\ probe # NoProbe
    /\ probe.stage = "built"
    /\ Len(probe.title) = TitleLimit + 2
    /\ probe.title[1] = "<E9>"
    /\ probe.title[2] = "B"
    /\ probe.earlier = <<>>
    /\ probe.now = 9
    /\ Len(probe.identifier) = Len(IdentifierPrefix) + TitleLimit + 2
    /\ probe.identifier[Len(IdentifierPrefix) + TitleLimit] = "-"
    /\ probe.identifier[Len(IdentifierPrefix) + 1] = "b"


\* C29: the object name derived from a file name is filesystem-safe and
\* keeps the extension: each of its characters is a letter, a digit, a dot,
\* a hyphen or an underscore, and it ends with a dot and the extension of
\* the file name, or with a dot and the default extension when the file
\* name has no dot (or nothing after its last dot).
C29_ObjectNameSafeWithExtension ==
    (probe # NoProbe /\ probe.stage = "built") =>
        LET start == Len(BaseUrl) + Len(probe.identifier) + 2
            object == SubSeq(probe.target, start + 1, Len(probe.target))
            name == probe.name
            hasExtension == \E i \in 1..(Len(name) - 1) :
                               name[i] = "." /\ \A j \in (i + 1)..Len(name) : name[j] # "."
            original == IF hasExtension
                        THEN SubSeq(name, LastDot(name) + 1, Len(name))
                        ELSE DefaultExtension
            ending == <<".">> \o original
        IN  /\ \A i \in 1..Len(object) :
                  object[i] \in {LowerCase[k] : k \in 1..26}
                                  \cup {UpperCase[k] : k \in 1..26}
                                  \cup {DigitChars[k] : k \in 1..10}
                                  \cup {".", "-", "_"}
            /\ Len(object) >= Len(ending)
            /\ SubSeq(object, Len(object) - Len(ending) + 1, Len(object)) = ending


\* C24: verify always resolves to a boolean and never rejects, for every
\* pair of credentials: once the call has settled, its promise is resolved,
\* with true exactly when the probe was answered with status 200, and with
\* false for any other status and for a network failure.
C24_VerifyResolvesBoolean ==
    (probe # NoProbe /\ probe.stage \in {"thrown", "settled"}) =>
        /\ probe.promise = "resolved"
        /\ probe.isValid <=> (probe.received /\ probe.status = 200)


\* C25: a header that cannot be set is dropped without aborting the upload.
\* Whatever subset of the headers setRequestHeader fails for, the request is
\* sent with exactly the other headers, and the attempt then ends in
\* Succeeded or in Failed according to the response alone.
C25_FailingHeadersDropped ==
    /\ (probe # NoProbe /\ probe.stage = "open") =>
          \A failing \in SUBSET DOMAIN probe.headers :
              RejectedHeaders(probe.headers) \subseteq failing =>
                  ENABLED (SetRequestHeaders(failing) /\ probe'.stage = "sent")
    /\ (probe # NoProbe /\ probe.stage # "open") =>
          /\ probe.stage = "sent"
          /\ DOMAIN probe.sent = DOMAIN probe.headers \ probe.failing
          /\ \A name \in DOMAIN probe.sent : probe.sent[name] = probe.headers[name]
          /\ xhr # NoXhr =>
                /\ step = "UPLOADING"
                /\ ENABLED SentRequestFails
                /\ \A response \in UploadResponses :
                      ENABLED SentRequestLoads(response.status,
                                               response.responseText)
          /\ xhr = NoXhr =>
                /\ last.event = "settled"
                /\ IF last.response.received
                      /\ last.response.status \in 200..299
                   THEN StepState = Succeeded(DetailsUrl(last.request.identifier))
                   ELSE StepState = Failed(errorMsg) /\ errorMsg # NullText

\* The Authorization header and the title header could not be set, the PUT
\* was sent without them and was answered with 403.
C25_Witness ==
    /\ probe # NoProbe
    /\ probe.stage = "sent"
    /\ probe.failing = {"Authorization", "x-archive-meta-title"}
    /\ "x-archive-meta-subject" \in DOMAIN probe.sent
    /\ xhr = NoXhr
    /\ last.response.received
    /\ last.response.status = 403
    /\ step = "ERROR"



\* C26: if from some point on every status check for the uploaded identifier
\* meets the completion condition and the user neither skips nor resets (and
\* keeps the page open), verification-pending eventually ends, given that the
\* timers fire and the responses are delivered.  Pending may last only where
\* the modelled time ends before the next poll of a running poll timer.
C26_CompletingChecksEndPending ==
    <>[][ /\ ~SkipVerification
          /\ ~handleReset
          /\ ~Unmount
          /\ \A i \in 1..Len(checks) : \A resp \in SettleResponses(i) :
                ( /\ CheckSettles(i, resp)
                  /\ checks[i].identifier = LastSegment(successUrl) )
                => CheckCompletes(resp, checks[i].identifier) ]_vars
    => <>[]( isVerifying =>
                /\ pollInterval
                /\ sincePoll < PollSeconds
                /\ elapsedTime = MaxElapsed )

\* Pending had lasted for a poll period or more when a check of the session
\* met the completion condition and ended it, within the modelled time.
C26_Witness ==
    /\ step = "SUCCESS"
    /\ ~isVerifying
    /\ ~pollInterval
    /\ last.event = "check"
    /\ elapsedTime >= PollSeconds
    /\ elapsedTime < MaxElapsed


\* C27: the manual skip action is enabled only in Succeeded with verification
\* pending and an elapsed time strictly greater than 20 seconds, and a skip
\* step is taken only from such a state; at 20 seconds or less it cannot be
\* taken.
C27_SkipOnlyAfterThreshold ==
    [][ /\ (ENABLED SkipVerification) =>
              /\ step = "SUCCESS"
              /\ isVerifying
              /\ elapsedTime > SkipThreshold
        /\ SkipVerification =>
              /\ step = "SUCCESS"
              /\ isVerifying
              /\ elapsedTime > SkipThreshold
              /\ step' = "SUCCESS"
              /\ ~isVerifying' ]_vars

\* The user skipped in the first second in which the skip action is offered.
C27_Witness ==
    /\ last.event = "skip"
    /\ step = "SUCCESS"
    /\ ~isVerifying
    /\ elapsedTime = SkipThreshold + 1


\* C28: while any metadata-generation request is pending and the step is
\* Reviewing, the loading flag is set, so that the review form with the
\* publish action is not offered; also after Back and a second selection
\* while an earlier request is outstanding.
C28_LoadingWhileGenerating ==
    (step = "REVIEW" /\ generating # {}) =>
        /\ isGenerating
        /\ ~ReviewFormShown
        /\ ~ENABLED handleUpload


\* C30: in Succeeded, verification is shown as complete only if a status
\* check issued for the identifier of the current upload met the completion
\* condition or the user skipped in the current session: the pending phase
\* ends in Succeeded only by such a check or by the skip (never by the
\* response to a check of an earlier session), and once the effect of
\* entering Succeeded has run, a complete view has such an ending behind it.
C30_CompleteOnlyByOwnCheckOrSkip ==
    [][ /\ (step' = "SUCCESS" /\ isVerifying /\ ~isVerifying') =>
              \/ SkipVerification
              \/ \E i \in 1..Len(checks) : \E resp \in SettleResponses(i) :
                    /\ CheckSettles(i, resp)
                    /\ checks[i].identifier = LastSegment(successUrl)
                    /\ CheckCompletes(resp, LastSegment(successUrl))
        /\ (step' = "SUCCESS" /\ Ready' /\ ~isVerifying') =>
              \/ step = "SUCCESS" /\ Ready /\ ~isVerifying
              \/ step = "SUCCESS" /\ isVerifying /\ last'.event \in {"check", "skip"} ]_vars


\* C31: the credentials are saved with the verified flag true only if the
\* exact key pair being saved was accepted by the credential probe, under any
\* interleaving of editing the key fields, starting a test, the arrival of
\* the test's response and saving.
C31_VerifiedMeansProbed ==
    (probe # NoProbe /\ probe.stored # NothingStored /\ probe.stored.verified) =>
        <<probe.stored.accessKey, probe.stored.secretKey>> \in probe.accepted


\* C32: the identifier the poller queries is the identifier the upload was
\* created under.  When an upload succeeds, the last path segment of the
\* success URL is the identifier generated for that attempt (from the title
\* submitted and the time of submission), and in Succeeded every status check
\* of the session, the first one and each one a poll issues, requests it.
C32_PollerQueriesUploadedIdentifier ==
    [][ /\ (step = "UPLOADING" /\ step' = "SUCCESS") =>
              /\ xhr # NoXhr
              /\ xhr.identifier = generateIdentifier(xhr.metadata.title, clock)
              /\ LastSegment(successUrl') = xhr.identifier
        /\ (step' = "SUCCESS" /\ Len(checks') > Len(checks)) =>
              /\ checks'[Len(checks')].live
              /\ checks'[Len(checks')].identifier = LastSegment(successUrl')
              /\ checks'[Len(checks')].identifier # <<>>
        /\ step' = "SUCCESS" =>
              \A i \in 1..Len(checks') :
                  checks'[i].live =>
                      checks'[i].identifier = LastSegment(successUrl') ]_vars

\* In the second upload session a poll has issued a check while the first
\* check of the session is in flight; both request the session's identifier.
C32_Witness ==
    /\ step = "SUCCESS"
    /\ clock = 2
    /\ last.event = "poll"
    /\ Len(checks) = 2
    /\ \A i \in 1..2 :
          /\ checks[i].live
          /\ checks[i].identifier = LastSegment(successUrl)
    /\ Len(LastSegment(successUrl)) > 0


\* C33: the generated metadata that is applied belongs to the file that is
\* selected: a result is applied only for the selected file, and only while
\* the draft is still being generated in Idle or Reviewing, so that it
\* overwrites neither the metadata of a later selection nor metadata the
\* user has edited or submitted; also when requests overlap after Back and
\* another selection.
C33_GeneratedForSelectedFile ==
    [][ \A selectedFile \in Files :
            GenerationResolves(selectedFile.name) =>
                /\ file = selectedFile
                /\ isGenerating
                /\ step \in {"UPLOAD", "REVIEW"} ]_vars

====
